---------------------------- MODULE Spec2Model ----------------------------
(***************************************************************************)
(* Model of the SERVEL results scraper (src/scraper_modular.py): the name  *)
(* normalizers, the per-comuna table extraction, the region/comuna walk of *)
(* ejecutar_extraccion with its optional cap and its periodic partial      *)
(* saves, and the assembly of the final matrix from datos_completos.       *)
(*                                                                         *)
(* Text is modelled as a sequence of Unicode code points, so that          *)
(* upper/lower/split/strip, the regular expressions and the ordering of    *)
(* sorted() are computed and not assumed.  The character domain is Latin-1 *)
(* without the three letters whose upper case leaves Latin-1 (181, 223,    *)
(* 255).                                                                   *)
(***************************************************************************)
EXTENDS Integers, Sequences, FiniteSets, TLC

VARIABLES
  max_comunas,         \* self.max_comunas (0 models None: both are falsy)
  sitio,               \* the remote site: regions, their comunas, the pages they may show
  driver,              \* self.driver is set (a browser session was obtained)
  cierres,             \* number of driver.quit() calls
  abiertas,            \* number of browser sessions started (webdriver constructors returned)
  pc,                  \* position inside ejecutar_extraccion
  regiones,            \* local 'regiones' of ejecutar_extraccion
  ri,                  \* index of the region the for loop of ejecutar_extraccion is at
  region_normalizada,  \* local of _procesar_region
  comunas,             \* local 'comunas' of _procesar_region (after truncation)
  ci,                  \* index of the comuna the for loop of _procesar_region is at
  datos_completos,     \* self.datos_completos: insertion-ordered dict, as a sequence
  comunas_procesadas,  \* self.comunas_procesadas
  comunas_con_error,   \* self.comunas_con_error
  intentos,            \* history: the calls of _procesar_comuna_individual, in order
  selecciones,         \* history: the regions selected in the remote UI, in order
  parciales,           \* history: the calls of _guardar_progreso_parcial, in order
  df_final,            \* the matrix built by the final _crear_dataframe_final
  resultado,           \* how ejecutar_extraccion ended
  error,               \* the message of the exception ejecutar_extraccion re-raised
  llamada,             \* a call of one method made directly, outside a run
  retorno              \* what that call returned

vars == << max_comunas, sitio, driver, cierres, abiertas, pc, regiones, ri,
           region_normalizada, comunas, ci, datos_completos, comunas_procesadas,
           comunas_con_error, intentos, selecciones, parciales, df_final, resultado,
           error, llamada, retorno >>

\* a direct call of a method: none during a run of ejecutar_extraccion
directa == << llamada, retorno >>

SinLlamada == [metodo |-> "ninguno"]

Pendiente == [hecho |-> FALSE]

Retorna(valor) == [hecho |-> TRUE, valor |-> valor]

---------------------------------------------------------------------------
(* Python str methods on code-point sequences                              *)

IsSpace(c) == c \in {9, 10, 11, 12, 13, 28, 29, 30, 31, 32, 133, 160}

IsUpperC(c) == (c \in 65..90) \/ (c \in 192..222 /\ c # 215)

IsLowerC(c) == (c \in 97..122) \/ (c \in 224..254 /\ c # 247)

\* str.isdigit(): the ASCII digits and the superscripts 2, 3, 1
IsDigitC(c) == (c \in 48..57) \/ (c \in {178, 179, 185})

\* \w of a str pattern: alphanumerics (str.isalnum) and the underscore
IsWordC(c) ==
  \/ IsUpperC(c) \/ IsLowerC(c) \/ IsDigitC(c) \/ c = 95
  \/ c \in {170, 186, 188, 189, 190}

UpperC(c) == IF IsLowerC(c) THEN c - 32 ELSE c

LowerC(c) == IF IsUpperC(c) THEN c + 32 ELSE c

Upper(s) == [i \in 1..Len(s) |-> UpperC(s[i])]

Lower(s) == [i \in 1..Len(s) |-> LowerC(s[i])]

\* str.capitalize(): first character upper (title) case, the rest lower case
Capitalize(s) == [i \in 1..Len(s) |-> IF i = 1 THEN UpperC(s[i]) ELSE LowerC(s[i])]

RECURSIVE LStrip(_)
LStrip(s) == IF s # <<>> /\ IsSpace(Head(s)) THEN LStrip(Tail(s)) ELSE s

RECURSIVE RStrip(_)
RStrip(s) ==
  IF s # <<>> /\ IsSpace(s[Len(s)]) THEN RStrip(SubSeq(s, 1, Len(s) - 1)) ELSE s

Strip(s) == RStrip(LStrip(s))

\* length of the longest prefix of s made of characters that are not spaces
RECURSIVE PalabraLen(_)
PalabraLen(s) ==
  IF s = <<>> \/ IsSpace(Head(s)) THEN 0 ELSE 1 + PalabraLen(Tail(s))

\* str.split() with no argument: the maximal runs of non-space characters
RECURSIVE Split(_)
Split(s) ==
  LET t == LStrip(s)
      n == PalabraLen(t)
  IN  IF t = <<>> THEN <<>>
      ELSE <<SubSeq(t, 1, n)>> \o Split(SubSeq(t, n + 1, Len(t)))

\* ' '.join(palabras)
RECURSIVE Join(_)
Join(palabras) ==
  IF palabras = <<>> THEN <<>>
  ELSE IF Len(palabras) = 1 THEN palabras[1]
  ELSE palabras[1] \o <<32>> \o Join(Tail(palabras))

\* s.startswith(p, i - 1): p occurs in s at (1-based) position i
OccursAt(p, s, i) ==
  /\ i >= 1
  /\ i + Len(p) - 1 <= Len(s)
  /\ \A k \in 1..Len(p) : s[i + k - 1] = p[k]

\* p in s
Contains(p, s) == \E i \in 1..(Len(s) + 1) : OccursAt(p, s, i)

\* a variant of str.replace that returns the text as it is
ReplaceCharConserva(s, c, nuevo) == s

\* s.replace(chr(c), nuevo) for a single character c
RECURSIVE ReplaceChar(_, _, _)
ReplaceChar(s, c, nuevo) ==
  IF s = <<>> THEN <<>>
  ELSE (IF Head(s) = c THEN nuevo ELSE <<Head(s)>>) \o ReplaceChar(Tail(s), c, nuevo)

\* the position before index i of s (between s[i-1] and s[i]) is a \b boundary
Boundary(s, i) ==
  LET antes   == i > 1 /\ i - 1 <= Len(s) /\ IsWordC(s[i - 1])
      despues == i >= 1 /\ i <= Len(s) /\ IsWordC(s[i])
  IN  antes # despues

\* re.sub(r'\b' + p + r'\b', nuevo, s) from position i on, for a literal p
RECURSIVE SubPalabraDesde(_, _, _, _)
SubPalabraDesde(p, nuevo, s, i) ==
  IF i > Len(s) THEN <<>>
  ELSE IF OccursAt(p, s, i) /\ Boundary(s, i) /\ Boundary(s, i + Len(p))
       THEN nuevo \o SubPalabraDesde(p, nuevo, s, i + Len(p))
       ELSE <<s[i]>> \o SubPalabraDesde(p, nuevo, s, i + 1)

SubPalabra(p, nuevo, s) == SubPalabraDesde(p, nuevo, s, 1)

\* dict lookup in a table of <<key, value>> pairs
EnTabla(tabla, k) == \E i \in 1..Len(tabla) : tabla[i][1] = k

ValorTabla(tabla, k) ==
  tabla[CHOOSE i \in 1..Len(tabla) : tabla[i][1] = k][2]

\* Python's < on str: lexicographic on code points
RECURSIVE StrLt(_, _)
StrLt(a, b) ==
  IF b = <<>> THEN FALSE
  ELSE IF a = <<>> THEN TRUE
  ELSE IF Head(a) # Head(b) THEN Head(a) < Head(b)
  ELSE StrLt(Tail(a), Tail(b))

---------------------------------------------------------------------------
(* Name normalizers                                                        *)

excepciones ==
  { <<73, 73>>,
    <<73, 73, 73>>,
    <<73, 86>>,
    <<86, 73>>,
    <<86, 73, 73>>,
    <<88>>,
    <<88, 73, 86>>,
    <<88, 86>>,
    <<88, 86, 73>>,
    <<88, 86, 73, 73, 73>>,
    <<88, 73, 88>> }

\* the dict 'correcciones', in its insertion order
correcciones ==
  << << <<68, 101>>, <<100, 101>> >>,
     << <<68, 101, 108>>, <<100, 101, 108>> >>,
     << <<76, 97>>, <<108, 97>> >>,
     << <<76, 97, 115>>, <<108, 97, 115>> >>,
     << <<76, 111, 115>>, <<108, 111, 115>> >>,
     << <<89>>, <<121>> >>,
     << <<69>>, <<101>> >>,
     << <<69, 110>>, <<101, 110>> >>,
     << <<67, 111, 110>>, <<99, 111, 110>> >> >>

\* the dict nombres_especificos: every key maps to itself
nombres_especificos ==
  <<
    << <<65, 114, 105, 99, 97>>, <<65, 114, 105, 99, 97>> >>,  \* "Arica"
    << <<73, 113, 117, 105, 113, 117, 101>>, <<73, 113, 117, 105, 113, 117, 101>> >>,  \* "Iquique"
    << <<65, 110, 116, 111, 102, 97, 103, 97, 115, 116, 97>>, <<65, 110, 116, 111, 102, 97, 103, 97, 115, 116, 97>> >>,  \* "Antofagasta"
    << <<67, 111, 112, 105, 97, 112, 243>>, <<67, 111, 112, 105, 97, 112, 243>> >>,  \* "Copiapó"
    << <<76, 97, 32, 83, 101, 114, 101, 110, 97>>, <<76, 97, 32, 83, 101, 114, 101, 110, 97>> >>,  \* "La Serena"
    << <<67, 111, 113, 117, 105, 109, 98, 111>>, <<67, 111, 113, 117, 105, 109, 98, 111>> >>,  \* "Coquimbo"
    << <<86, 97, 108, 112, 97, 114, 97, 237, 115, 111>>, <<86, 97, 108, 112, 97, 114, 97, 237, 115, 111>> >>,  \* "Valparaíso"
    << <<86, 105, 241, 97, 32, 100, 101, 108, 32, 77, 97, 114>>, <<86, 105, 241, 97, 32, 100, 101, 108, 32, 77, 97, 114>> >>,  \* "Viña del Mar"
    << <<83, 97, 110, 116, 105, 97, 103, 111>>, <<83, 97, 110, 116, 105, 97, 103, 111>> >>,  \* "Santiago"
    << <<82, 97, 110, 99, 97, 103, 117, 97>>, <<82, 97, 110, 99, 97, 103, 117, 97>> >>,  \* "Rancagua"
    << <<84, 97, 108, 99, 97>>, <<84, 97, 108, 99, 97>> >>,  \* "Talca"
    << <<67, 104, 105, 108, 108, 225, 110>>, <<67, 104, 105, 108, 108, 225, 110>> >>,  \* "Chillán"
    << <<67, 111, 110, 99, 101, 112, 99, 105, 243, 110>>, <<67, 111, 110, 99, 101, 112, 99, 105, 243, 110>> >>,  \* "Concepción"
    << <<84, 101, 109, 117, 99, 111>>, <<84, 101, 109, 117, 99, 111>> >>,  \* "Temuco"
    << <<86, 97, 108, 100, 105, 118, 105, 97>>, <<86, 97, 108, 100, 105, 118, 105, 97>> >>,  \* "Valdivia"
    << <<80, 117, 101, 114, 116, 111, 32, 77, 111, 110, 116, 116>>, <<80, 117, 101, 114, 116, 111, 32, 77, 111, 110, 116, 116>> >>,  \* "Puerto Montt"
    << <<67, 111, 121, 104, 97, 105, 113, 117, 101>>, <<67, 111, 121, 104, 97, 105, 113, 117, 101>> >>,  \* "Coyhaique"
    << <<80, 117, 110, 116, 97, 32, 65, 114, 101, 110, 97, 115>>, <<80, 117, 110, 116, 97, 32, 65, 114, 101, 110, 97, 115>> >>,  \* "Punta Arenas"
    << <<209, 117, 241, 111, 97>>, <<209, 117, 241, 111, 97>> >>,  \* "Ñuñoa"
    << <<80, 114, 111, 118, 105, 100, 101, 110, 99, 105, 97>>, <<80, 114, 111, 118, 105, 100, 101, 110, 99, 105, 97>> >>,  \* "Providencia"
    << <<76, 97, 115, 32, 67, 111, 110, 100, 101, 115>>, <<76, 97, 115, 32, 67, 111, 110, 100, 101, 115>> >>,  \* "Las Condes"
    << <<77, 97, 105, 112, 250>>, <<77, 97, 105, 112, 250>> >>,  \* "Maipú"
    << <<83, 97, 110, 32, 66, 101, 114, 110, 97, 114, 100, 111>>, <<83, 97, 110, 32, 66, 101, 114, 110, 97, 114, 100, 111>> >>,  \* "San Bernardo"
    << <<80, 117, 101, 110, 116, 101, 32, 65, 108, 116, 111>>, <<80, 117, 101, 110, 116, 101, 32, 65, 108, 116, 111>> >>  \* "Puente Alto"
  >>

\* one iteration of "for palabra in palabras"
CapitalizarPalabra(palabra) ==
  IF Upper(palabra) \in excepciones THEN Upper(palabra)
  ELSE IF palabra # <<>> /\ palabra[1] = 241
       THEN <<209>> \o Capitalize(Tail(palabra))
       ELSE Capitalize(palabra)

\* the loop "for incorrecto, correcto in correcciones.items()", from entry i on
RECURSIVE AplicarCorrecciones(_, _)
AplicarCorrecciones(s, i) ==
  IF i > Len(correcciones) THEN s
  ELSE AplicarCorrecciones(SubPalabra(correcciones[i][1], correcciones[i][2], s), i + 1)

normalizar_nombre_comuna(nombre_comuna) ==
  LET palabras == Split(Lower(nombre_comuna))
      palabras_capitalizadas ==
        [i \in 1..Len(palabras) |-> CapitalizarPalabra(palabras[i])]
      nombre_normalizado == AplicarCorrecciones(Join(palabras_capitalizadas), 1)
  IN  IF EnTabla(nombres_especificos, nombre_normalizado)
      THEN ValorTabla(nombres_especificos, nombre_normalizado)
      ELSE nombre_normalizado

mapeo_especial ==
  <<
    \* "METROPOLITANA DE SANTIAGO" -> "Metropolitana"
    << <<77, 69, 84, 82, 79, 80, 79, 76, 73, 84, 65, 78, 65, 32, 68, 69, 32, 83, 65, 78, 84, 73, 65, 71, 79>>,
       <<77, 101, 116, 114, 111, 112, 111, 108, 105, 116, 97, 110, 97>> >>,
    \* "DEL LIBERTADOR GENERAL BERNARDO O'HIGGINS" -> "Libertador"
    << <<68, 69, 76, 32, 76, 73, 66, 69, 82, 84, 65, 68, 79, 82, 32, 71, 69, 78, 69, 82, 65, 76, 32, 66, 69, 82, 78, 65, 82, 68, 79, 32, 79, 39, 72, 73, 71, 71, 73, 78, 83>>,
       <<76, 105, 98, 101, 114, 116, 97, 100, 111, 114>> >>,
    \* "DEL MAULE" -> "Maule"
    << <<68, 69, 76, 32, 77, 65, 85, 76, 69>>,
       <<77, 97, 117, 108, 101>> >>,
    \* "DEL BIOBIO" -> "Biobío"
    << <<68, 69, 76, 32, 66, 73, 79, 66, 73, 79>>,
       <<66, 105, 111, 98, 237, 111>> >>,
    \* "DE ARICA Y PARINACOTA" -> "Arica y Parinacota"
    << <<68, 69, 32, 65, 82, 73, 67, 65, 32, 89, 32, 80, 65, 82, 73, 78, 65, 67, 79, 84, 65>>,
       <<65, 114, 105, 99, 97, 32, 121, 32, 80, 97, 114, 105, 110, 97, 99, 111, 116, 97>> >>,
    \* "DE TARAPACA" -> "Tarapacá"
    << <<68, 69, 32, 84, 65, 82, 65, 80, 65, 67, 65>>,
       <<84, 97, 114, 97, 112, 97, 99, 225>> >>,
    \* "DE ANTOFAGASTA" -> "Antofagasta"
    << <<68, 69, 32, 65, 78, 84, 79, 70, 65, 71, 65, 83, 84, 65>>,
       <<65, 110, 116, 111, 102, 97, 103, 97, 115, 116, 97>> >>,
    \* "DE ATACAMA" -> "Atacama"
    << <<68, 69, 32, 65, 84, 65, 67, 65, 77, 65>>,
       <<65, 116, 97, 99, 97, 109, 97>> >>,
    \* "DE COQUIMBO" -> "Coquimbo"
    << <<68, 69, 32, 67, 79, 81, 85, 73, 77, 66, 79>>,
       <<67, 111, 113, 117, 105, 109, 98, 111>> >>,
    \* "DE VALPARAISO" -> "Valparaíso"
    << <<68, 69, 32, 86, 65, 76, 80, 65, 82, 65, 73, 83, 79>>,
       <<86, 97, 108, 112, 97, 114, 97, 237, 115, 111>> >>,
    \* "DE ÑUBLE" -> "Ñuble"
    << <<68, 69, 32, 209, 85, 66, 76, 69>>,
       <<209, 117, 98, 108, 101>> >>,
    \* "DE LA ARAUCANIA" -> "La Araucanía"
    << <<68, 69, 32, 76, 65, 32, 65, 82, 65, 85, 67, 65, 78, 73, 65>>,
       <<76, 97, 32, 65, 114, 97, 117, 99, 97, 110, 237, 97>> >>,
    \* "DE LOS RIOS" -> "Los Ríos"
    << <<68, 69, 32, 76, 79, 83, 32, 82, 73, 79, 83>>,
       <<76, 111, 115, 32, 82, 237, 111, 115>> >>,
    \* "DE LOS LAGOS" -> "Los Lagos"
    << <<68, 69, 32, 76, 79, 83, 32, 76, 65, 71, 79, 83>>,
       <<76, 111, 115, 32, 76, 97, 103, 111, 115>> >>,
    \* "DE AYSEN DEL GENERAL CARLOS IBAÑEZ DEL CAMPO" -> "Aysén"
    << <<68, 69, 32, 65, 89, 83, 69, 78, 32, 68, 69, 76, 32, 71, 69, 78, 69, 82, 65, 76, 32, 67, 65, 82, 76, 79, 83, 32, 73, 66, 65, 209, 69, 90, 32, 68, 69, 76, 32, 67, 65, 77, 80, 79>>,
       <<65, 121, 115, 233, 110>> >>,
    \* "DE MAGALLANES Y DE LA ANTARTICA CHILENA" -> "Magallanes"
    << <<68, 69, 32, 77, 65, 71, 65, 76, 76, 65, 78, 69, 83, 32, 89, 32, 68, 69, 32, 76, 65, 32, 65, 78, 84, 65, 82, 84, 73, 67, 65, 32, 67, 72, 73, 76, 69, 78, 65>>,
       <<77, 97, 103, 97, 108, 108, 97, 110, 101, 115>> >>
  >>

\* the alternatives of r'^(DE|DEL|DE LA|DE LOS)\s+', in the order the regex tries them
prefijos_region ==
  << <<68, 69>>, <<68, 69, 76>>, <<68, 69, 32, 76, 65>>, <<68, 69, 32, 76, 79, 83>> >>

\* alternative p (IGNORECASE) matches at the start of s and \s+ can follow it
CoincidePrefijo(p, s) ==
  /\ Len(s) > Len(p)
  /\ Upper(SubSeq(s, 1, Len(p))) = p
  /\ IsSpace(s[Len(p) + 1])

\* re.sub(r'^(DE|DEL|DE LA|DE LOS)\s+', '', s, flags=re.IGNORECASE)
QuitarPrefijo(s) ==
  IF \E i \in 1..Len(prefijos_region) : CoincidePrefijo(prefijos_region[i], s)
  THEN LET i == CHOOSE k \in 1..Len(prefijos_region) :
                  /\ CoincidePrefijo(prefijos_region[k], s)
                  /\ \A j \in 1..(k - 1) : ~CoincidePrefijo(prefijos_region[j], s)
       IN  LStrip(SubSeq(s, Len(prefijos_region[i]) + 1, Len(s)))
  ELSE s

normalizar_nombre_region(nombre_region) ==
  IF EnTabla(mapeo_especial, Upper(nombre_region))
  THEN ValorTabla(mapeo_especial, Upper(nombre_region))
  ELSE LET palabras == Split(QuitarPrefijo(nombre_region))
       IN  Join([i \in 1..Len(palabras) |->
                  IF i = 1 THEN Capitalize(palabras[i])
                  ELSE IF Upper(palabras[i]) \in
                            {<<89>>, <<79>>, <<68, 69>>, <<68, 69, 76>>}
                       THEN Lower(palabras[i])
                       ELSE Capitalize(palabras[i])])

\* re.sub(r'[^a-zA-Z0-9_]', '_', s)
Slug(s) ==
  [i \in 1..Len(s) |->
     IF (s[i] \in 97..122) \/ (s[i] \in 65..90) \/ (s[i] \in 48..57) \/ s[i] = 95
     THEN s[i] ELSE 95]

\* self.MAPEO_CANDIDATOS of the run, the alias dict of the configuration, as an ordered
\* table of <<largo, corto>>: here {"KAST": "kast_r"}, which names one of the candidates
\* of the pages below and none of the others; the methods that read self.MAPEO_CANDIDATOS
\* take the table as their first parameter
MAPEO_CANDIDATOS == << << <<75, 65, 83, 84>>, <<107, 97, 115, 116, 95, 114>> >> >>

candidato_desconocido ==
  <<99, 97, 110, 100, 105, 100, 97, 116, 111, 95, 100, 101, 115, 99, 111, 110, 111,
    99, 105, 100, 111>>

\* index of the first key of the alias table, in its order, equal to nombre_upper; 0 if none
PrimeraExacta(mapeo_candidatos, nombre_upper) ==
  IF \E i \in 1..Len(mapeo_candidatos) : nombre_upper = mapeo_candidatos[i][1]
  THEN CHOOSE i \in 1..Len(mapeo_candidatos) :
         /\ nombre_upper = mapeo_candidatos[i][1]
         /\ \A j \in 1..(i - 1) : nombre_upper # mapeo_candidatos[j][1]
  ELSE 0

\* a variant of PrimeraParcial: the last key of the alias table found in nombre_upper
PrimeraParcialUltima(mapeo_candidatos, nombre_upper) ==
  IF \E i \in 1..Len(mapeo_candidatos) : Contains(mapeo_candidatos[i][1], nombre_upper)
  THEN CHOOSE i \in 1..Len(mapeo_candidatos) :
         /\ Contains(mapeo_candidatos[i][1], nombre_upper)
         /\ \A j \in (i + 1)..Len(mapeo_candidatos) :
              ~Contains(mapeo_candidatos[j][1], nombre_upper)
  ELSE 0

\* index of the first key of the alias table, in its order, found in nombre_upper; 0 if none
PrimeraParcial(mapeo_candidatos, nombre_upper) ==
  IF \E i \in 1..Len(mapeo_candidatos) : Contains(mapeo_candidatos[i][1], nombre_upper)
  THEN CHOOSE i \in 1..Len(mapeo_candidatos) :
         /\ Contains(mapeo_candidatos[i][1], nombre_upper)
         /\ \A j \in 1..(i - 1) : ~Contains(mapeo_candidatos[j][1], nombre_upper)
  ELSE 0

\* simplificar_nombre_candidato of an object whose self.MAPEO_CANDIDATOS is mapeo_candidatos
simplificar_nombre_candidato(mapeo_candidatos, nombre_completo) ==
  LET nombre_upper == Strip(Upper(nombre_completo))
      palabras     == Split(nombre_completo)
  IN  IF PrimeraExacta(mapeo_candidatos, nombre_upper) # 0
      THEN mapeo_candidatos[PrimeraExacta(mapeo_candidatos, nombre_upper)][2]
      ELSE IF PrimeraParcial(mapeo_candidatos, nombre_upper) # 0
      THEN mapeo_candidatos[PrimeraParcial(mapeo_candidatos, nombre_upper)][2]
      ELSE IF palabras # <<>>
      THEN Slug(Lower(palabras[Len(palabras)]))
      ELSE candidato_desconocido

---------------------------------------------------------------------------
(* Extraction of one comuna's results table                                *)
(*                                                                         *)
(* A page of the remote site is [seleccionable, tablas]: whether the       *)
(* comuna can be selected, and the tables rendered after selecting it.  A  *)
(* table is [visible, encabezado, filas]; encabezado holds the texts of    *)
(* its th cells; a fila is [celdas, obsoleta]: the texts of its td cells,  *)
(* and whether reading them raises (the element went stale).  The text of  *)
(* a cell holds no letter, underscore or superscript in the votos and      *)
(* porcentaje columns of the pages used here, except where noted.          *)

\* the empty dict
DictVacio == <<>>

\* a variant of DictPoner that keeps the value a key already has
DictPonerSiFalta(d, k, v) ==
  [x \in (DOMAIN d) \cup {k} |-> IF x \in DOMAIN d THEN d[x] ELSE v]

\* d[k] = v
DictPoner(d, k, v) == [x \in (DOMAIN d) \cup {k} |-> IF x = k THEN v ELSE d[x]]

\* the value (None, None)
Ninguno == [nada |-> TRUE, candidatos |-> DictVacio, totales |-> DictVacio]

AsciiDigitos(s) == \A i \in 1..Len(s) : s[i] \in 48..57

\* str.isdigit()
IsDigit(s) == s # <<>> /\ \A i \in 1..Len(s) : IsDigitC(s[i])

\* int(s) for a string of ASCII digits
RECURSIVE EnteroDe(_)
EnteroDe(s) == IF s = <<>> THEN 0 ELSE 10 * EnteroDe(SubSeq(s, 1, Len(s) - 1)) + (s[Len(s)] - 48)

\* a float, as the decimal number (-1)^neg * mant / 10^exp in lowest terms of ten
Cero == [neg |-> FALSE, mant |-> 0, exp |-> 0]

RECURSIVE Decimal(_, _, _)
Decimal(neg, mant, exp) ==
  IF mant = 0 THEN Cero
  ELSE IF exp > 0 /\ mant % 10 = 0 THEN Decimal(neg, mant \div 10, exp - 1)
  ELSE [neg |-> neg, mant |-> mant, exp |-> exp]

\* position of the first occurrence of character c in s, or 0
RECURSIVE Find(_, _)
Find(s, c) ==
  IF s = <<>> THEN 0
  ELSE IF Head(s) = c THEN 1
  ELSE LET r == Find(Tail(s), c) IN IF r = 0 THEN 0 ELSE r + 1

\* the floats that are no decimal number: inf and -inf, and nan
Infinito(neg) == [neg |-> neg, mant |-> 1, exp |-> -1]

NaN == [neg |-> FALSE, mant |-> 0, exp |-> -1]

\* float(s), for s made of ASCII digits, sign, point, spaces and letters, without an
\* exponent ("1e3") and without underscores: [valido |-> FALSE] stands for ValueError
Float(s) ==
  LET t       == Strip(s)
      signo   == t # <<>> /\ t[1] \in {43, 45}
      neg     == signo /\ t[1] = 45
      u       == IF signo THEN Tail(t) ELSE t
      p       == Find(u, 46)
      entero  == IF p = 0 THEN u ELSE SubSeq(u, 1, p - 1)
      decimal == IF p = 0 THEN <<>> ELSE SubSeq(u, p + 1, Len(u))
  IN  IF Lower(u) \in {<<105, 110, 102>>, <<105, 110, 102, 105, 110, 105, 116, 121>>}
      THEN [valido |-> TRUE, valor |-> Infinito(neg)]        \* "inf", "infinity"
      ELSE IF Lower(u) = <<110, 97, 110>>
      THEN [valido |-> TRUE, valor |-> NaN]                  \* "nan"
      ELSE IF AsciiDigitos(entero) /\ AsciiDigitos(decimal) /\ Len(entero) + Len(decimal) > 0
      THEN [valido |-> TRUE, valor |-> Decimal(neg, EnteroDe(entero \o decimal), Len(decimal))]
      ELSE [valido |-> FALSE, valor |-> Cero]

BLANCO == <<66, 76, 65, 78, 67, 79>>

NULO == <<78, 85, 76, 79>>

EMITIDO == <<69, 77, 73, 84, 73, 68, 79>>

TOTAL == <<84, 79, 84, 65, 76>>

VOTACION == <<86, 79, 84, 65, 67, 73, 211, 78>>      \* "VOTACIÓN"

CANDIDATO == <<67, 65, 78, 68, 73, 68, 65, 84, 79>>

PARTIDO == <<80, 65, 82, 84, 73, 68, 79>>

VOTOS == <<86, 79, 84, 79, 83>>

PORCENTAJE == <<80, 79, 82, 67, 69, 78, 84, 65, 74, 69>>

blanco == <<98, 108, 97, 110, 99, 111>>

nulo == <<110, 117, 108, 111>>

emitidos == <<101, 109, 105, 116, 105, 100, 111, 115>>

\* a variant of _procesar_fila that tests the void marker before the blank marker
_procesar_fila_nulo_primero(mapeo_candidatos, celdas, datos) ==
  LET nombre           == Strip(celdas[1])
      votos_texto      == ReplaceChar(Strip(celdas[2]), 46, <<>>)
      porcentaje_texto ==
        ReplaceChar(ReplaceChar(Strip(celdas[3]), 37, <<>>), 44, <<46>>)
      votos            == IF IsDigit(votos_texto) THEN EnteroDe(votos_texto) ELSE 0
      porcentaje       ==
        IF porcentaje_texto # <<>> /\ Float(porcentaje_texto).valido
        THEN Float(porcentaje_texto).valor ELSE Cero
      nombre_upper     == Upper(nombre)
      valor            == [votos |-> votos, porcentaje |-> porcentaje]
  IN  IF IsDigit(votos_texto) /\ ~AsciiDigitos(votos_texto)
      THEN datos      \* int() raises ValueError: "except (ValueError, IndexError): pass"
      ELSE IF Contains(NULO, nombre_upper)
      THEN [datos EXCEPT !.totales = DictPoner(@, nulo, valor)]
      ELSE IF Contains(BLANCO, nombre_upper)
      THEN [datos EXCEPT !.totales = DictPoner(@, blanco, valor)]
      ELSE IF Contains(EMITIDO, nombre_upper) \/ Contains(TOTAL, nombre_upper)
      THEN [datos EXCEPT !.totales = DictPoner(@, emitidos, valor)]
      ELSE IF /\ nombre # <<>>
              /\ ~\E palabra \in {TOTAL, VOTACION, CANDIDATO, PARTIDO} :
                    Contains(palabra, nombre_upper)
      THEN [datos EXCEPT
              !.candidatos = DictPoner(@, simplificar_nombre_candidato(mapeo_candidatos, nombre),
                                       valor)]
      ELSE datos

\* _procesar_fila: the two dicts after the row 'celdas' (datos = [candidatos, totales])
_procesar_fila(mapeo_candidatos, celdas, datos) ==
  LET nombre           == Strip(celdas[1])
      votos_texto      == ReplaceChar(Strip(celdas[2]), 46, <<>>)
      porcentaje_texto ==
        ReplaceChar(ReplaceChar(Strip(celdas[3]), 37, <<>>), 44, <<46>>)
      votos            == IF IsDigit(votos_texto) THEN EnteroDe(votos_texto) ELSE 0
      porcentaje       ==
        IF porcentaje_texto # <<>> /\ Float(porcentaje_texto).valido
        THEN Float(porcentaje_texto).valor ELSE Cero
      nombre_upper     == Upper(nombre)
      valor            == [votos |-> votos, porcentaje |-> porcentaje]
  IN  IF IsDigit(votos_texto) /\ ~AsciiDigitos(votos_texto)
      THEN datos      \* int() raises ValueError: "except (ValueError, IndexError): pass"
      ELSE IF Contains(BLANCO, nombre_upper)
      THEN [datos EXCEPT !.totales = DictPoner(@, blanco, valor)]
      ELSE IF Contains(NULO, nombre_upper)
      THEN [datos EXCEPT !.totales = DictPoner(@, nulo, valor)]
      ELSE IF Contains(EMITIDO, nombre_upper) \/ Contains(TOTAL, nombre_upper)
      THEN [datos EXCEPT !.totales = DictPoner(@, emitidos, valor)]
      ELSE IF /\ nombre # <<>>
              /\ ~\E palabra \in {TOTAL, VOTACION, CANDIDATO, PARTIDO} :
                    Contains(palabra, nombre_upper)
      THEN [datos EXCEPT
              !.candidatos = DictPoner(@, simplificar_nombre_candidato(mapeo_candidatos, nombre),
                                       valor)]
      ELSE datos

\* tabla.text: the visible text of the table
RECURSIVE JoinFilas(_)
JoinFilas(filas) ==
  IF filas = <<>> THEN <<>>
  ELSE Join(Head(filas).celdas) \o <<10>> \o JoinFilas(Tail(filas))

TextoTabla(tabla) ==
  IF tabla.visible THEN Join(tabla.encabezado) \o <<10>> \o JoinFilas(tabla.filas)
  ELSE <<>>

EsTablaResultados(tabla) ==
  /\ tabla.visible
  /\ \E palabra \in {CANDIDATO, VOTOS, PORCENTAJE, PARTIDO, BLANCO, NULO, EMITIDO} :
        Contains(palabra, Upper(TextoTabla(tabla)))

\* _encontrar_tabla_resultados: index of the table returned, 0 for None
\* (no table within the wait, or none with a marker word)
_encontrar_tabla_resultados(pagina) ==
  IF \E i \in 1..Len(pagina.tablas) : EsTablaResultados(pagina.tablas[i])
  THEN CHOOSE i \in 1..Len(pagina.tablas) :
         /\ EsTablaResultados(pagina.tablas[i])
         /\ \A j \in 1..(i - 1) : ~EsTablaResultados(pagina.tablas[j])
  ELSE 0

\* the loop "for fila in filas" of _procesar_tabla_resultados, from row i on
RECURSIVE ProcesarFilas(_, _, _, _)
ProcesarFilas(mapeo_candidatos, filas, i, datos) ==
  IF i > Len(filas) THEN datos
  ELSE ProcesarFilas(mapeo_candidatos, filas, i + 1,
         IF Len(filas[i].celdas) >= 3
         THEN _procesar_fila(mapeo_candidatos, filas[i].celdas, datos)
         ELSE datos)

\* some row that is read raises an exception other than ValueError and IndexError
FilaLanza(filas) == \E i \in 1..Len(filas) : Len(filas[i].celdas) >= 3 /\ filas[i].obsoleta

_procesar_tabla_resultados(mapeo_candidatos, pagina) ==
  LET t == _encontrar_tabla_resultados(pagina)
  IN  IF t = 0 THEN Ninguno
      ELSE IF FilaLanza(pagina.tablas[t].filas) THEN Ninguno
      ELSE ProcesarFilas(mapeo_candidatos, pagina.tablas[t].filas, 1,
             [nada |-> FALSE, candidatos |-> DictVacio, totales |-> DictVacio])

_extraer_datos_comuna(mapeo_candidatos, pagina) ==
  IF ~pagina.seleccionable THEN Ninguno
  ELSE _procesar_tabla_resultados(mapeo_candidatos, pagina)

---------------------------------------------------------------------------
(* The accumulator self.datos_completos and the assembly of the matrix     *)
(*                                                                         *)
(* datos_completos is a Python dict (insertion ordered): a sequence of     *)
(* [clave, datos] with clave = <<comuna, region>> and                      *)
(* datos = [candidatos, totales].                                          *)

Claves(dc) == {dc[i].clave : i \in 1..Len(dc)}

IndiceClave(dc, clave) == CHOOSE i \in 1..Len(dc) : dc[i].clave = clave

\* a variant of Insertar that keeps the entries in a list and appends every one
InsertarSiempreAgrega(dc, clave, datos) == Append(dc, [clave |-> clave, datos |-> datos])

\* a variant of Insertar that keeps the record a key already has
InsertarConservaAnterior(dc, clave, datos) ==
  IF clave \in Claves(dc) THEN dc ELSE Append(dc, [clave |-> clave, datos |-> datos])

\* self.datos_completos[clave] = datos
Insertar(dc, clave, datos) ==
  IF clave \in Claves(dc)
  THEN [dc EXCEPT ![IndiceClave(dc, clave)].datos = datos]
  ELSE Append(dc, [clave |-> clave, datos |-> datos])

\* a variant of Sorted that sorts in descending order
RECURSIVE SortedDescendente(_)
SortedDescendente(S) ==
  IF S = {} THEN <<>>
  ELSE CHOOSE orden \in {<<m>> \o SortedDescendente(S \ {m}) :
                           m \in {x \in S : \A y \in S \ {x} : StrLt(y, x)}} : TRUE

\* sorted(list(S)) for a set S of str: the least element m of S, then the others sorted
RECURSIVE Sorted(_)
Sorted(S) ==
  IF S = {} THEN <<>>
  ELSE CHOOSE orden \in {<<m>> \o Sorted(S \ {m}) :
                           m \in {x \in S : \A y \in S \ {x} : StrLt(x, y)}} : TRUE

\* a variant of TodosCandidatos that takes the candidates of the latest record alone
TodosCandidatosDelUltimo(dc) ==
  IF dc = <<>> THEN <<>> ELSE Sorted(DOMAIN dc[Len(dc)].datos.candidatos)

\* todos_candidatos and todos_totales of _crear_dataframe_final
TodosCandidatos(dc) == Sorted(UNION {DOMAIN dc[i].datos.candidatos : i \in 1..Len(dc)})

TodosTotales(dc) == Sorted(UNION {DOMAIN dc[i].datos.totales : i \in 1..Len(dc)})

sufijo_votos == <<95, 118, 111, 116, 111, 115>>      \* "_votos"

sufijo_pct == <<95, 112, 99, 116>>                   \* "_pct"

col_comuna == <<99, 111, 109, 117, 110, 97>>         \* "comuna"

col_region == <<114, 101, 103, 105, 111, 110>>       \* "region"

\* columnas.extend([f'{n}_votos', f'{n}_pct']) for n in nombres
RECURSIVE ColumnasDe(_)
ColumnasDe(nombres) ==
  IF nombres = <<>> THEN <<>>
  ELSE <<Head(nombres) \o sufijo_votos, Head(nombres) \o sufijo_pct>>
       \o ColumnasDe(Tail(nombres))

\* fila.extend([d[n]['votos'], d[n]['porcentaje']]) or fila.extend([0, 0.0]), for n in nombres
RECURSIVE CeldasDe(_, _)
CeldasDe(nombres, d) ==
  IF nombres = <<>> THEN <<>>
  ELSE (IF Head(nombres) \in DOMAIN d
        THEN <<d[Head(nombres)].votos, d[Head(nombres)].porcentaje>>
        ELSE <<0, Cero>>)
       \o CeldasDe(Tail(nombres), d)

\* row a goes before row b in df.sort_values(['region', 'comuna'])
FilaAntes(a, b) == StrLt(a[2], b[2]) \/ (a[2] = b[2] /\ StrLt(a[1], b[1]))

\* insertion of fila into the sorted sequence filas, after the n rows that go before it
InsertarOrdenada(filas, fila) ==
  LET n == Cardinality({j \in 1..Len(filas) : FilaAntes(filas[j], fila)})
  IN  SubSeq(filas, 1, n) \o <<fila>> \o SubSeq(filas, n + 1, Len(filas))

\* a variant of SortValues that leaves the rows in the order of insertion
SortValuesConserva(filas) == filas

\* df.sort_values(['region', 'comuna']).reset_index(drop=True)
RECURSIVE SortValues(_)
SortValues(filas) ==
  IF filas = <<>> THEN <<>>
  ELSE CHOOSE orden \in {InsertarOrdenada(resto, fila) :
                           resto \in {SortValues(Tail(filas))},
                           fila \in {Head(filas)}} : TRUE

\* fila = [comuna, region] extended with the cells of the candidates and of the totals
FilaDe(entrada, todos_candidatos, todos_totales) ==
  <<entrada.clave[1], entrada.clave[2]>>
  \o CeldasDe(todos_candidatos, entrada.datos.candidatos)
  \o CeldasDe(todos_totales, entrada.datos.totales)

\* the loop "for (comuna, region), datos in self.datos_completos.items()" building filas
RECURSIVE FilasDe(_, _, _)
FilasDe(dc, todos_candidatos, todos_totales) ==
  IF dc = <<>> THEN <<>>
  ELSE <<FilaDe(Head(dc), todos_candidatos, todos_totales)>>
       \o FilasDe(Tail(dc), todos_candidatos, todos_totales)

\* df = pd.DataFrame(filas, columns=columnas) sorted by region and comuna
DataFrame(filas, columnas) ==
  CHOOSE df \in {[columnas |-> columnas, filas |-> SortValues(f)] : f \in {filas}} : TRUE

_crear_dataframe_final(dc) ==
  CHOOSE df \in
    {DataFrame(FilasDe(dc, todos_candidatos, todos_totales),
               <<col_comuna, col_region>>
               \o ColumnasDe(todos_candidatos) \o ColumnasDe(todos_totales)) :
       todos_candidatos \in {TodosCandidatos(dc)},
       todos_totales \in {TodosTotales(dc)}} : TRUE

\* the value of df_final before the matrix is built
SinMatriz == [columnas |-> <<>>, filas |-> <<>>]

---------------------------------------------------------------------------
(* The remote site                                                         *)
(*                                                                         *)
(* sitio is a sequence of regions [nombre, enumerable, comunas]: the text  *)
(* of the region's option, whether its comuna selector can be read once    *)
(* the region is selected, and its comunas [nombre, paginas], paginas      *)
(* being the pages the site may show when the comuna is selected.          *)

Seleccionar == <<83, 101, 108, 101, 99, 99, 105, 111, 110, 97, 114>>   \* "Seleccionar"

\* the texts of the options of a selector listing 'items'
Opciones(items) == <<Seleccionar>> \o [i \in 1..Len(items) |-> items[i].nombre]

\* [opcion.text for opcion in opciones if opcion.text and opcion.text != "Seleccionar"]
TextosValidos(opciones) ==
  LET Valido(texto) == texto # <<>> /\ texto # Seleccionar
  IN  SelectSeq(opciones, Valido)

\* select_by_visible_text: the first item whose option shows that text
PorTexto(items, texto) ==
  items[CHOOSE i \in 1..Len(items) :
          items[i].nombre = texto /\ \A j \in 1..(i - 1) : items[j].nombre # texto]

Fila(nombre, votos, porcentaje) ==
  [celdas |-> <<nombre, votos, porcentaje>>, obsoleta |-> FALSE]

Encabezado == << <<67, 97, 110, 100, 105, 100, 97, 116, 111>>,             \* "Candidato"
                 <<86, 111, 116, 111, 115>>,                               \* "Votos"
                 <<80, 111, 114, 99, 101, 110, 116, 97, 106, 101>> >>      \* "Porcentaje"

Pagina(filas) ==
  [seleccionable |-> TRUE,
   tablas |-> << [visible |-> TRUE, encabezado |-> Encabezado, filas |-> filas] >>]

FilaPerez ==      \* ("JUAN PEREZ", "1.234", "45,6")
  Fila(<<74, 85, 65, 78, 32, 80, 69, 82, 69, 90>>, <<49, 46, 50, 51, 52>>, <<52, 53, 44, 54>>)

FilaPerezB ==     \* ("JUAN PEREZ", "500", "15,0")
  Fila(<<74, 85, 65, 78, 32, 80, 69, 82, 69, 90>>, <<53, 48, 48>>, <<49, 53, 44, 48>>)

FilaKast ==       \* ("JOSE KAST", "2.000", "60,0")
  Fila(<<74, 79, 83, 69, 32, 75, 65, 83, 84>>, <<50, 46, 48, 48, 48>>, <<54, 48, 44, 48>>)

FilaJara ==       \* ("ANA JARA", "7", "1,5")
  Fila(<<65, 78, 65, 32, 74, 65, 82, 65>>, <<55>>, <<49, 44, 53>>)

FilaBlanco ==     \* ("BLANCO", "10", "0,4")
  Fila(<<66, 76, 65, 78, 67, 79>>, <<49, 48>>, <<48, 44, 52>>)

FilaNulos ==      \* ("NULOS", "3", "0,1")
  Fila(<<78, 85, 76, 79, 83>>, <<51>>, <<48, 44, 49>>)

FilaEmitidos ==   \* ("TOTAL EMITIDOS", "1.244", "100,0")
  Fila(<<84, 79, 84, 65, 76, 32, 69, 77, 73, 84, 73, 68, 79, 83>>,
       <<49, 46, 50, 52, 52>>, <<49, 48, 48, 44, 48>>)

FilaTotal ==      \* ("TOTAL", "9", "1,0")
  Fila(TOTAL, <<57>>, <<49, 44, 48>>)

PaginaA == Pagina(<<FilaPerez, FilaBlanco, FilaEmitidos>>)

PaginaB == Pagina(<<FilaKast, FilaPerezB, FilaNulos>>)

PaginaC == Pagina(<<FilaJara, FilaPerez>>)

\* a results table with aggregate rows only
PaginaSoloTotales == Pagina(<<FilaBlanco, FilaNulos>>)

\* a results table one of whose rows raises when it is read
PaginaObsoleta == Pagina(<<FilaPerez, [FilaKast EXCEPT !.obsoleta = TRUE]>>)

\* no table is present within the wait
PaginaSinTabla == [seleccionable |-> TRUE, tablas |-> <<>>]

\* tables are present (one hidden, one a menu), none has a marker word
PaginaOtraTabla ==
  [seleccionable |-> TRUE,
   tablas |-> << [visible |-> FALSE, encabezado |-> Encabezado, filas |-> <<FilaPerez>>],
                 [visible |-> TRUE,
                  encabezado |-> << <<73, 110, 105, 99, 105, 111>> >>,     \* "Inicio"
                  filas |-> << [celdas |-> << <<65, 121, 117, 100, 97>> >>, \* "Ayuda"
                                obsoleta |-> FALSE] >>] >>]

\* selecting the comuna raises
PaginaNoSeleccionable == [seleccionable |-> FALSE, tablas |-> <<>>]

Comuna(nombre, paginas) == [nombre |-> nombre, paginas |-> paginas]

Region(nombre, enumerable, lista) ==
  [nombre |-> nombre, enumerable |-> enumerable, comunas |-> lista]

\* largest cap tried on the sites below (0 is "no cap")
MaxTope == 3

\* number of comunas of the one region of SitioGrande
NumComunasGrande == 21

\* a site with few comunas and many different pages: two raw comuna labels of
\* Valparaiso normalize to the same name, one region cannot be enumerated, one is empty
SitioVariado ==
  << Region(<<68, 69, 32, 86, 65, 76, 80, 65, 82, 65, 73, 83, 79>>, TRUE,       \* "DE VALPARAISO"
       << Comuna(<<81, 85, 73, 76, 80, 85, 69>>,                               \* "QUILPUE"
                 {PaginaC, PaginaSoloTotales}),
          Comuna(<<86, 73, 209, 65, 32, 68, 69, 76, 32, 77, 65, 82>>,          \* "VIÑA DEL MAR"
                 {PaginaA, PaginaSinTabla}),
          Comuna(<<86, 105, 241, 97, 32, 32, 100, 101, 108, 32, 77, 97, 114>>, \* "Viña  del Mar"
                 {PaginaB, PaginaC, PaginaObsoleta}) >>),
     Region(<<68, 69, 76, 32, 83, 85, 82>>, FALSE, <<>>),                       \* "DEL SUR"
     Region(<<68, 69, 32, 76, 65, 32, 88>>, TRUE,                               \* "DE LA X"
       << Comuna(<<76, 65, 32, 83, 69, 82, 69, 78, 65>>,                       \* "LA SERENA"
                 {PaginaA, PaginaB, PaginaNoSeleccionable, PaginaOtraTabla}),
          Comuna(<<81, 85, 73, 76, 80, 85, 69>>,                               \* "QUILPUE"
                 {PaginaB, PaginaC}) >>),
     Region(<<73, 83, 76, 65>>, TRUE, <<>>) >>                                  \* "ISLA"

\* two regions of 3 and 4 comunas, every comuna either shows its table or none
SitioDosRegiones ==
  << Region(<<82, 49>>, TRUE,                                                   \* "R1"
       [k \in 1..3 |-> Comuna(<<64 + k>>, {PaginaA, PaginaSinTabla})]),        \* "A".."C"
     Region(<<82, 50>>, TRUE,                                                   \* "R2"
       [k \in 1..4 |-> Comuna(<<67 + k>>, {PaginaA, PaginaSinTabla})]) >>      \* "D".."G"

\* one region of NumComunasGrande comunas "C01", "C02", ...; every fourth may fail
SitioGrande ==
  << Region(<<82, 49>>, TRUE,
       [k \in 1..NumComunasGrande |->
          Comuna(<<67, 48 + (k \div 10), 48 + (k % 10)>>,
                 IF k % 4 = 0 THEN {PaginaA, PaginaSinTabla} ELSE {PaginaA})]) >>

\* the site lists no region at all
SitioVacio == <<>>

\* the sites tried
Sitios == {SitioVariado, SitioVacio, SitioDosRegiones, SitioGrande}

\* the texts of the region options, of the comuna options, and the pages of the sites
TextosRegion == UNION {{s[i].nombre : i \in 1..Len(s)} : s \in Sitios}

TextosComuna ==
  UNION {UNION {{s[i].comunas[k].nombre : k \in 1..Len(s[i].comunas)} : i \in 1..Len(s)} :
           s \in Sitios}

Paginas ==
  UNION {UNION {UNION {s[i].comunas[k].paginas : k \in 1..Len(s[i].comunas)} :
                  i \in 1..Len(s)} : s \in Sitios}

\* the methods applied to the texts and pages of the sites, tabulated: each value is
\* computed once, whatever the number of calls
RegionNormalizada == [texto \in TextosRegion |-> normalizar_nombre_region(texto)]

ComunaNormalizada == [texto \in TextosComuna |-> normalizar_nombre_comuna(texto)]

DatosExtraidos == [pagina \in Paginas |-> _extraer_datos_comuna(MAPEO_CANDIDATOS, pagina)]

---------------------------------------------------------------------------
(* ejecutar_extraccion                                                     *)

\* the object after __init__, before any call
Construido ==
  /\ driver = FALSE
  /\ cierres = 0
  /\ abiertas = 0
  /\ pc = "inicio"
  /\ regiones = <<>>
  /\ ri = 0
  /\ region_normalizada = <<>>
  /\ comunas = <<>>
  /\ ci = 0
  /\ datos_completos = <<>>
  /\ comunas_procesadas = 0
  /\ comunas_con_error = 0
  /\ intentos = <<>>
  /\ selecciones = <<>>
  /\ parciales = <<>>
  /\ df_final = SinMatriz
  /\ resultado = "ninguno"
  /\ error = "ninguno"

Init ==
  /\ \/ sitio = SitioVariado /\ max_comunas \in 0..MaxTope
     \/ sitio = SitioVacio /\ max_comunas = 0
     \/ sitio = SitioDosRegiones /\ max_comunas \in {0, 5}
     \/ sitio = SitioGrande /\ max_comunas = 0
  /\ Construido
  /\ llamada = SinLlamada
  /\ retorno = Pendiente

config == << max_comunas, sitio >>

recorrido == << regiones, ri, region_normalizada, comunas, ci >>

acumulado == << datos_completos, comunas_procesadas, comunas_con_error,
                intentos, selecciones, parciales >>

\* a call of ejecutar_extraccion raised: "except Exception as e: ...; raise", control
\* goes to the finally clause
Lanzar == pc' = "finally" /\ resultado' = "excepcion" /\ error' = "en_llamada"

\* a variant of LanzarSinRegiones in which the run goes on to the final assembly
LanzarSinRegionesContinua == pc' = "ensamblar" /\ resultado' = resultado /\ error' = error

\* raise Exception("No se pudieron obtener las regiones")
LanzarSinRegiones ==
  pc' = "finally" /\ resultado' = "excepcion" /\ error' = "sin_regiones"

\* _crear_dataframe_final raises
LanzarEnsamblado ==
  pc' = "finally" /\ resultado' = "excepcion" /\ error' = "en_ensamblado"

\* the statement ends normally
Sigue == resultado' = resultado /\ error' = error

\* what one _inicializar_<navegador> may do: 'creadas' is the number of sessions its
\* webdriver constructor returned, each assigned to self.driver, and 'listo' whether it
\* returned normally.  The constructor raises (no session), or it returns and
\* set_page_load_timeout raises (a session and no return), or both succeed; Chrome and
\* Edge, when the exception names the driver program, construct once more
ResultadosInicializador(reintenta) ==
  {[creadas |-> 0, listo |-> FALSE], [creadas |-> 1, listo |-> FALSE],
   [creadas |-> 1, listo |-> TRUE]}
  \cup IF reintenta
       THEN {[creadas |-> 2, listo |-> FALSE], [creadas |-> 2, listo |-> TRUE]}
       ELSE {}

\* self.inicializar_navegador(): Chrome, Edge and Firefox are tried in this order until
\* one initializer returns; it raises when none does
InicializarNavegador ==
  /\ pc = "inicio"
  /\ \E chrome \in ResultadosInicializador(TRUE) :
       \E edge \in ResultadosInicializador(TRUE) :
         \E firefox \in ResultadosInicializador(FALSE) :
           LET creadas ==
                 chrome.creadas
                 + (IF chrome.listo THEN 0
                    ELSE edge.creadas + (IF edge.listo THEN 0 ELSE firefox.creadas))
           IN  /\ abiertas' = creadas
               /\ driver' = (creadas > 0)
               /\ IF chrome.listo \/ edge.listo \/ firefox.listo
                  THEN pc' = "navegar" /\ Sigue
                  ELSE Lanzar
  /\ UNCHANGED << config, directa, recorrido, acumulado, cierres, df_final >>

\* self._navegar_a_servel(): driver.get may raise
NavegarAServel ==
  /\ pc = "navegar"
  /\ \E cargada \in BOOLEAN :
       IF cargada THEN pc' = "filtro" /\ Sigue ELSE Lanzar
  /\ UNCHANGED << config, directa, recorrido, acumulado, driver, cierres, abiertas, df_final >>

\* self._activar_filtro_division_electoral(): logs and re-raises when the button fails
ActivarFiltro ==
  /\ pc = "filtro"
  /\ \E activado \in BOOLEAN :
       IF activado THEN pc' = "obtener_regiones" /\ Sigue ELSE Lanzar
  /\ UNCHANGED << config, directa, recorrido, acumulado, driver, cierres, abiertas, df_final >>

\* _obtener_regiones: the valid option texts, [] when reading the selector raises
_obtener_regiones(legible) ==
  IF legible THEN TextosValidos(Opciones(sitio)) ELSE <<>>

\* regiones = self._obtener_regiones(); if not regiones: raise
ObtenerRegiones ==
  /\ pc = "obtener_regiones"
  /\ \E legible \in BOOLEAN :
       /\ regiones' = _obtener_regiones(legible)
       /\ IF regiones' = <<>> THEN LanzarSinRegiones /\ ri' = ri
          ELSE pc' = "regiones" /\ ri' = 1 /\ Sigue
  /\ UNCHANGED << config, directa, region_normalizada, comunas, ci, acumulado, driver,
                  cierres, abiertas, df_final >>

\* a variant of LimiteAlcanzado that lets one comuna more through
LimiteSobrepasado == max_comunas # 0 /\ comunas_procesadas > max_comunas

\* a variant of LimiteAlcanzado in which the counter is never compared with the cap
LimiteNuncaAlcanzado == FALSE

\* self.max_comunas and self.comunas_procesadas >= self.max_comunas
LimiteAlcanzado == max_comunas # 0 /\ comunas_procesadas >= max_comunas

\* _obtener_comunas_region once the region is selected: [] when the comuna selector raises
_obtener_comunas_region(region_nombre) ==
  LET region == PorTexto(sitio, region_nombre)
  IN  IF region.enumerable THEN TextosValidos(Opciones(region.comunas)) ELSE <<>>

\* a variant of Recortar that keeps the whole list
RecortarNada(lista) == lista

\* comunas[:self.max_comunas] when self.max_comunas and len(comunas) > self.max_comunas
Recortar(lista) ==
  IF max_comunas # 0 /\ Len(lista) > max_comunas THEN SubSeq(lista, 1, max_comunas)
  ELSE lista

\* a variant of SaltarRegion in which a region without comunas ends the walk
SaltarRegionTermina ==
  /\ pc' = "ensamblar"
  /\ ri' = ri
  /\ comunas' = <<>>
  /\ ci' = 0

\* "if not comunas: return" of _procesar_region: on to the next region
SaltarRegion ==
  /\ pc' = "regiones"
  /\ ri' = ri + 1
  /\ comunas' = <<>>
  /\ ci' = 0

\* one iteration of "for region in regiones" up to the comuna loop of _procesar_region
EntrarRegion ==
  /\ pc = "regiones"
  /\ ri <= Len(regiones)
  /\ ~LimiteAlcanzado
  /\ region_normalizada' = RegionNormalizada[regiones[ri]]
  /\ selecciones' = Append(selecciones, regiones[ri])
  /\ LET lista == _obtener_comunas_region(regiones[ri])
     IN  IF lista = <<>>
         THEN SaltarRegion
         ELSE /\ pc' = "comunas"
              /\ ri' = ri
              /\ comunas' = Recortar(lista)
              /\ ci' = 1
  /\ UNCHANGED << config, directa, regiones, datos_completos, comunas_procesadas,
                  comunas_con_error, intentos, parciales, driver, cierres, abiertas, df_final,
                  resultado, error >>

\* the break of "for region in regiones"
LimiteRegiones ==
  /\ pc = "regiones"
  /\ ri <= Len(regiones)
  /\ LimiteAlcanzado
  /\ pc' = "ensamblar"
  /\ UNCHANGED << config, directa, recorrido, acumulado, driver, cierres, abiertas,
                  df_final, resultado, error >>

\* "for region in regiones" is exhausted
FinRegiones ==
  /\ pc = "regiones"
  /\ ri > Len(regiones)
  /\ pc' = "ensamblar"
  /\ UNCHANGED << config, directa, recorrido, acumulado, driver, cierres, abiertas,
                  df_final, resultado, error >>

\* the pages the site may show for comuna_nombre of the region now selected
PaginasDe(comuna_nombre) ==
  PorTexto(PorTexto(sitio, selecciones[Len(selecciones)]).comunas, comuna_nombre).paginas

\* why an extraction yields nothing to record, "exito" when it yields candidates
Causa(pagina) ==
  IF ~pagina.seleccionable THEN "excepcion"
  ELSE IF _encontrar_tabla_resultados(pagina) = 0 THEN "sin_tabla"
  ELSE IF _extraer_datos_comuna(MAPEO_CANDIDATOS, pagina).nada THEN "excepcion"
  ELSE IF DOMAIN _extraer_datos_comuna(MAPEO_CANDIDATOS, pagina).candidatos = {}
  THEN "sin_candidatos"
  ELSE "exito"

\* Causa, tabulated over the pages of the sites
CausaDe == [pagina \in Paginas |-> Causa(pagina)]

\* the checkpoint interval of "if self.comunas_procesadas % 10 == 0"
INTERVALO_PARCIAL == 10

\* a variant of DebeGuardar that tests the count before the comuna is counted
DebeGuardarAntes(procesadas) == (procesadas - 1) % INTERVALO_PARCIAL = 0

\* if self.comunas_procesadas % 10 == 0
DebeGuardar(procesadas) == procesadas % INTERVALO_PARCIAL = 0

\* _guardar_progreso_parcial: the call, what it had to write, and whether it was written
\* (an error while building or writing the partial file is logged and swallowed)
_guardar_progreso_parcial(dc, procesadas, escrito) ==
  [procesadas |-> procesadas,
   df         |-> IF dc = <<>> THEN SinMatriz ELSE _crear_dataframe_final(dc),
   escrito    |-> dc # <<>> /\ escrito]

\* a variant of RegistrarExito in which the error of a failed partial save reaches the
\* "except Exception" of _procesar_comuna_individual
RegistrarExitoPropaga(clave, extraido, escrito) ==
  /\ datos_completos' =
       Insertar(datos_completos, clave,
                [candidatos |-> extraido.candidatos, totales |-> extraido.totales])
  /\ comunas_procesadas' = comunas_procesadas + 1
  /\ parciales' =
       IF DebeGuardar(comunas_procesadas')
       THEN Append(parciales,
              _guardar_progreso_parcial(datos_completos', comunas_procesadas', escrito))
       ELSE parciales
  /\ comunas_con_error' =
       IF DebeGuardar(comunas_procesadas') /\ ~escrito
       THEN comunas_con_error + 1 ELSE comunas_con_error
  /\ ci' = ci + 1

\* the branch "if datos_candidatos:" of _procesar_comuna_individual
RegistrarExito(clave, extraido, escrito) ==
  /\ datos_completos' =
       Insertar(datos_completos, clave,
                [candidatos |-> extraido.candidatos, totales |-> extraido.totales])
  /\ comunas_procesadas' = comunas_procesadas + 1
  /\ comunas_con_error' = comunas_con_error
  /\ parciales' =
       IF DebeGuardar(comunas_procesadas')
       THEN Append(parciales,
              _guardar_progreso_parcial(datos_completos', comunas_procesadas', escrito))
       ELSE parciales
  /\ ci' = ci + 1

\* a variant of RegistrarError that counts the comuna as processed too
RegistrarErrorCuentaProcesada ==
  /\ comunas_con_error' = comunas_con_error + 1
  /\ comunas_procesadas' = comunas_procesadas + 1
  /\ UNCHANGED << datos_completos, parciales >>
  /\ ci' = ci + 1

\* a variant of RegistrarError in which the failure ends the comuna loop of the region
RegistrarErrorTerminaRegion ==
  /\ comunas_con_error' = comunas_con_error + 1
  /\ UNCHANGED << datos_completos, comunas_procesadas, parciales >>
  /\ ci' = Len(comunas) + 1

\* the branch "else:" of _procesar_comuna_individual
RegistrarError ==
  /\ comunas_con_error' = comunas_con_error + 1
  /\ UNCHANGED << datos_completos, comunas_procesadas, parciales >>
  /\ ci' = ci + 1

\* a variant of ProcesarComuna that records the comuna when the extraction returned any
\* entry, candidate or aggregate
ProcesarComunaGuardaTotales(pagina, escrito) ==
  LET comuna_nombre      == comunas[ci]
      comuna_normalizada == ComunaNormalizada[comuna_nombre]
      extraido           == DatosExtraidos[pagina]
      clave              == <<comuna_normalizada, region_normalizada>>
      intento == [region |-> ri, comuna |-> comuna_nombre, clave |-> clave,
                  causa |-> CausaDe[pagina]]
  IN  /\ intentos' = Append(intentos, intento)
      /\ IF /\ ~extraido.nada
            /\ (DOMAIN extraido.candidatos) \cup (DOMAIN extraido.totales) # {}
         THEN RegistrarExito(clave, extraido, escrito)
         ELSE RegistrarError

\* _procesar_comuna_individual for the comuna at ci, the site showing 'pagina';
\* 'escrito' tells whether a partial save, if one is made, succeeds
ProcesarComuna(pagina, escrito) ==
  LET comuna_nombre      == comunas[ci]
      comuna_normalizada == ComunaNormalizada[comuna_nombre]
      extraido           == DatosExtraidos[pagina]
      clave              == <<comuna_normalizada, region_normalizada>>
      intento == [region |-> ri, comuna |-> comuna_nombre, clave |-> clave,
                  causa |-> CausaDe[pagina]]
  IN  /\ intentos' = Append(intentos, intento)
      /\ IF ~extraido.nada /\ DOMAIN extraido.candidatos # {}
         THEN RegistrarExito(clave, extraido, escrito)
         ELSE RegistrarError

\* one iteration of "for comuna_nombre in comunas"
ProcesarComunaIndividual ==
  /\ pc = "comunas"
  /\ ci <= Len(comunas)
  /\ ~LimiteAlcanzado
  /\ \E pagina \in PaginasDe(comunas[ci]) :
       \E escrito \in
           IF /\ CausaDe[pagina] = "exito"
              /\ DebeGuardar(comunas_procesadas + 1)
           THEN BOOLEAN ELSE {TRUE} :
         ProcesarComuna(pagina, escrito)
  /\ UNCHANGED << config, directa, regiones, ri, region_normalizada, comunas, selecciones,
                  pc, driver, cierres, abiertas, df_final, resultado, error >>

\* the break of "for comuna_nombre in comunas": _procesar_region returns
LimiteComunas ==
  /\ pc = "comunas"
  /\ ci <= Len(comunas)
  /\ LimiteAlcanzado
  /\ pc' = "regiones"
  /\ ri' = ri + 1
  /\ UNCHANGED << config, directa, regiones, region_normalizada, comunas, ci, acumulado, driver,
                  cierres, abiertas, df_final, resultado, error >>

\* "for comuna_nombre in comunas" is exhausted: _procesar_region returns
FinComunas ==
  /\ pc = "comunas"
  /\ ci > Len(comunas)
  /\ pc' = "regiones"
  /\ ri' = ri + 1
  /\ UNCHANGED << config, directa, regiones, region_normalizada, comunas, ci, acumulado, driver,
                  cierres, abiertas, df_final, resultado, error >>

\* a variant of CrearDataframeFinal in which the assembly consumes datos_completos
CrearDataframeFinalConsume ==
  /\ pc = "ensamblar"
  /\ df_final' = _crear_dataframe_final(datos_completos)
  /\ datos_completos' = <<>>
  /\ pc' = "guardar"
  /\ UNCHANGED << config, directa, recorrido, comunas_procesadas, comunas_con_error,
                  intentos, selecciones, parciales, driver, cierres, abiertas, resultado, error >>

\* df_final = self._crear_dataframe_final(): the matrix, or the exception that sorted()
\* or pandas raises (names that cannot be compared, no memory), which nothing catches
\* before "except Exception: raise" of ejecutar_extraccion
CrearDataframeFinal ==
  /\ pc = "ensamblar"
  /\ \E armado \in BOOLEAN :
       IF armado
       THEN /\ df_final' = _crear_dataframe_final(datos_completos)
            /\ pc' = "guardar"
            /\ Sigue
       ELSE /\ df_final' = df_final
            /\ LanzarEnsamblado
  /\ UNCHANGED << config, directa, recorrido, acumulado, driver, cierres, abiertas >>

\* self._guardar_resultados_finales(df_final, ...) swallows its errors; return df_final
GuardarResultadosFinales ==
  /\ pc = "guardar"
  /\ pc' = "finally"
  /\ resultado' = "retorno"
  /\ error' = error
  /\ UNCHANGED << config, directa, recorrido, acumulado, driver, cierres, abiertas, df_final >>

\* finally: if self.driver: self.driver.quit()
Finalmente ==
  /\ pc = "finally"
  /\ cierres' = IF driver THEN cierres + 1 ELSE cierres
  /\ pc' = "fin"
  /\ UNCHANGED << config, directa, recorrido, acumulado, driver, abiertas, df_final,
                  resultado, error >>

Next ==
  \/ InicializarNavegador
  \/ NavegarAServel
  \/ ActivarFiltro
  \/ ObtenerRegiones
  \/ EntrarRegion
  \/ LimiteRegiones
  \/ FinRegiones
  \/ ProcesarComunaIndividual
  \/ LimiteComunas
  \/ FinComunas
  \/ CrearDataframeFinal
  \/ GuardarResultadosFinales
  \/ Finalmente

Spec == Init /\ [][Next]_vars

\* the interpreter runs the next statement: no step is postponed for ever
FairSpec == Spec /\ WF_vars(Next)

---------------------------------------------------------------------------
(* Direct calls of the methods                                             *)
(*                                                                         *)
(* The methods that compute a value from their arguments are also called   *)
(* one at a time on an object just constructed: llamada is the call        *)
(* (method, the object's alias table, arguments) and retorno its result.   *)

\* longest raw candidate label tried
MaxLargo == 3

\* the characters of the raw candidate labels tried: space, "-", "1", "J", "k", "é"
Alfabeto == {32, 45, 49, 74, 107, 233}

\* the raw labels tried: every text of at most MaxLargo characters of Alfabeto
Etiquetas == UNION {[1..n -> Alfabeto] : n \in 0..MaxLargo}

\* the alias tables tried, as ordered tables of <<largo, corto>>
Mapeos ==
  { <<>>,                                                       \* {}
    << << <<74, 32, 75>>, <<106, 107>> >>,                      \* {"J K": "jk",
       << <<75>>, <<107, 95, 99>> >> >>,                        \*  "K": "k_c"}
    << << <<75>>, <<107, 95, 99>> >>,                           \* {"K": "k_c",
       << <<74, 32, 75>>, <<106, 107>> >> >>,                   \*  "J K": "jk"}
    << << <<107>>, <<109, 105, 110>> >> >>,                     \* {"k": "min"}
    << << <<>>, <<118, 97, 99, 105, 97>> >> >>,                 \* {"": "vacia"}
    << << <<74>>, <<>> >> >>,                                   \* {"J": ""}
    << << <<74>>, <<106, 95, 97>> >>,                           \* {"J": "j_a",
       << <<75>>, <<107, 95, 99>> >> >>,                        \*  "K": "k_c"}
    << << <<75>>, <<107, 95, 99>> >>,                           \* {"K": "k_c",
       << <<74>>, <<106, 95, 97>> >> >> }                       \*  "J": "j_a"}

Llamada(metodo, mapeo_candidatos, args) ==
  [metodo |-> metodo, mapeo_candidatos |-> mapeo_candidatos, args |-> args]

LlamadasSimplificar ==
  {Llamada("simplificar_nombre_candidato", m, <<nombre>>) : m \in Mapeos, nombre \in Etiquetas}

\* most rows of the tables tried
MaxFilas == 3

\* the rows the tables tried are made of
FilasTabla ==
  {FilaPerez, FilaPerezB, FilaKast, FilaJara, FilaBlanco, FilaNulos, FilaEmitidos, FilaTotal}

\* the tables tried: at most MaxFilas different rows of FilasTabla, in every order
TablasDeFilas ==
  UNION {{f \in [1..n -> FilasTabla] : \A i, j \in 1..n : i # j => f[i] # f[j]} :
           n \in 0..MaxFilas}

\* the calls on tables all of whose rows can be read
LlamadasTablaLegible ==
  {Llamada("_procesar_tabla_resultados", m, <<Pagina(filas)>>) :
     m \in {<<>>, MAPEO_CANDIDATOS}, filas \in TablasDeFilas}

\* a row whose cells raise StaleElementReferenceException when their text is read
FilaObsoleta == [FilaKast EXCEPT !.obsoleta = TRUE]

\* a row whose count makes int() raise ValueError: ("ANA JARA", "²", "1,5")
FilaSuperindice == Fila(<<65, 78, 65, 32, 74, 65, 82, 65>>, <<178>>, <<49, 44, 53>>)

\* a row of two cells: ("Votos", "1.244")
FilaCorta ==
  [celdas |-> << <<86, 111, 116, 111, 115>>, <<49, 46, 50, 52, 52>> >>, obsoleta |-> FALSE]

\* the rows of the tables tried with rows that fail
FilasConFallo == {FilaPerez, FilaBlanco, FilaObsoleta, FilaSuperindice, FilaCorta}

\* at most MaxFilas different rows of FilasConFallo, in every order
TablasConFallo ==
  UNION {{f \in [1..n -> FilasConFallo] : \A i, j \in 1..n : i # j => f[i] # f[j]} :
           n \in 0..MaxFilas}

\* the calls on tables with rows that fail, and on pages without a results table
LlamadasTablaConFallo ==
  {Llamada("_procesar_tabla_resultados", <<>>, <<pagina>>) :
     pagina \in {Pagina(filas) : filas \in TablasConFallo}
                 \cup {PaginaSinTabla, PaginaOtraTabla}}

LlamadasProcesarTabla == LlamadasTablaLegible \cup LlamadasTablaConFallo

\* the raw comuna labels tried: the names of nombres_especificos as they are written
\* there, in upper case and in lower case, and the comuna labels of the sites
EtiquetasComuna ==
  TextosComuna
  \cup UNION {{nombres_especificos[i][1], Upper(nombres_especificos[i][1]),
               Lower(nombres_especificos[i][1])} : i \in 1..Len(nombres_especificos)}

LlamadasNormalizarComuna ==
  {Llamada("normalizar_nombre_comuna", <<>>, <<nombre>>) : nombre \in EtiquetasComuna}

\* what follows the prefix in the raw region labels tried: "X", "sur y norte"
RestosRegion == {<<88>>, <<115, 117, 114, 32, 121, 32, 110, 111, 114, 116, 101>>}

\* the prefixes of prefijos_region in upper case, in lower case and capitalized
PrefijosEscritos ==
  UNION {{prefijos_region[i], Lower(prefijos_region[i]), Capitalize(prefijos_region[i])} :
           i \in 1..Len(prefijos_region)}

\* the raw region labels tried: the keys of mapeo_especial in upper and in lower case,
\* every prefix followed by every rest, the rests alone, and the region labels of the sites
EtiquetasRegion ==
  TextosRegion
  \cup UNION {{mapeo_especial[i][1], Lower(mapeo_especial[i][1])} :
               i \in 1..Len(mapeo_especial)}
  \cup {p \o <<32>> \o resto : p \in PrefijosEscritos, resto \in RestosRegion}
  \cup RestosRegion

LlamadasNormalizarRegion ==
  {Llamada("normalizar_nombre_region", <<>>, <<nombre>>) : nombre \in EtiquetasRegion}

\* most entries of the stores tried
MaxEntradas == 3

\* the keys (comuna, region) of the stores tried:
\* ("B", "R1"), ("A", "R2"), ("a", "R1"), ("Ñ", "R1")
ClavesAlmacen ==
  { << <<66>>, <<82, 49>> >>, << <<65>>, <<82, 50>> >>,
    << <<97>>, <<82, 49>> >>, << <<209>>, <<82, 49>> >> }

\* the record stored under each key: what was extracted from PaginaA, PaginaB or PaginaC
RegistroDeClave(clave) ==
  LET pagina == IF clave[1] = <<66>> THEN PaginaA
                ELSE IF clave[1] = <<65>> THEN PaginaB ELSE PaginaC
  IN  [candidatos |-> DatosExtraidos[pagina].candidatos,
       totales    |-> DatosExtraidos[pagina].totales]

\* the stores tried: at most MaxEntradas of the keys, inserted in every order
Almacenes ==
  UNION {{[i \in 1..n |-> [clave |-> f[i], datos |-> RegistroDeClave(f[i])]] :
            f \in {g \in [1..n -> ClavesAlmacen] : \A i, j \in 1..n : i # j => g[i] # g[j]}} :
           n \in 0..MaxEntradas}

\* an alias table that gives a candidate the name of an aggregate: {"KAST": "blanco"}
MapeoBlanco == << << <<75, 65, 83, 84>>, blanco >> >>

\* a results table with the candidate of that alias and blank votes
PaginaKastBlanco == Pagina(<<FilaKast, FilaBlanco>>)

\* the store of an object with the alias table mapeo_candidatos after it recorded the
\* comunas "A", "B", ... of "R1", which showed the pages 'paginas'
AlmacenDe(mapeo_candidatos, paginas) ==
  [i \in 1..Len(paginas) |->
     [clave |-> << <<64 + i>>, <<82, 49>> >>,
      datos |-> [candidatos |-> _procesar_tabla_resultados(mapeo_candidatos,
                                                           paginas[i]).candidatos,
                 totales    |-> _procesar_tabla_resultados(mapeo_candidatos,
                                                           paginas[i]).totales]]]

\* the stores of one and two comunas made with no alias, with the alias table of the
\* runs and with MapeoBlanco
LlamadasCrearDataframeAlias ==
  {Llamada("_crear_dataframe_final", m, <<AlmacenDe(m, paginas)>>) :
     m \in {<<>>, MAPEO_CANDIDATOS, MapeoBlanco},
     paginas \in UNION {[1..n -> {PaginaA, PaginaB, PaginaKastBlanco}] : n \in 1..2}}

LlamadasCrearDataframe ==
  {Llamada("_crear_dataframe_final", MAPEO_CANDIDATOS, <<dc>>) : dc \in Almacenes}
  \cup LlamadasCrearDataframeAlias

\* the words the row labels tried are made of: the markers of the aggregates, the header
\* words, "VOTACION" without its accent, a surname, and no word
PalabrasFila ==
  {BLANCO, NULO, EMITIDO, TOTAL, VOTACION, CANDIDATO, PARTIDO,
   <<86, 79, 84, 65, 67, 73, 79, 78>>, <<80, 69, 82, 69, 90>>, <<>>}

\* the row labels tried: two words with a space between them, in upper and in lower case
EtiquetasFila ==
  UNION {{a \o <<32>> \o b, Lower(a \o <<32>> \o b)} : a \in PalabrasFila, b \in PalabrasFila}

\* the count cells tried: "10" and the superscript "²", which isdigit accepts and int rejects
VotosFila == {<<49, 48>>, <<178>>}

\* the count cells tried with every share cell:
\* "1.234", "", "-5", "1,5", "12a", " 7 ", and the superscript "²"
CeldasVotos ==
  {<<49, 46, 50, 51, 52>>, <<>>, <<45, 53>>, <<49, 44, 53>>, <<49, 50, 97>>, <<32, 55, 32>>,
   <<178>>}

\* the share cells tried with every count cell:
\* "45,6%", "", "abc", "1,2,3", "%", "-1,5", "12.5 %", "inf", "NaN"
CeldasPorcentaje ==
  {<<52, 53, 44, 54, 37>>, <<>>, <<97, 98, 99>>, <<49, 44, 50, 44, 51>>, <<37>>,
   <<45, 49, 44, 53>>, <<49, 50, 46, 53, 32, 37>>, <<105, 110, 102>>, <<78, 97, 78>>}

\* the rows tried for the reading of the two numbers: a candidate and an aggregate
LlamadasFilaNumeros ==
  {Llamada("_procesar_fila", <<>>, << <<nombre, votos, porcentaje>> >>) :
     nombre \in {<<80, 69, 82, 69, 90>>, BLANCO}, votos \in CeldasVotos,
     porcentaje \in CeldasPorcentaje}

LlamadasProcesarFila ==
  {Llamada("_procesar_fila", m, << <<nombre, votos, <<48, 44, 52>> >> >>) :
     m \in {<<>>, MAPEO_CANDIDATOS}, nombre \in EtiquetasFila, votos \in VotosFila}
  \cup LlamadasFilaNumeros

Llamadas ==
  LlamadasSimplificar \cup LlamadasProcesarTabla \cup LlamadasNormalizarComuna
  \cup LlamadasNormalizarRegion \cup LlamadasCrearDataframe \cup LlamadasProcesarFila

InitMetodos ==
  /\ sitio = SitioVacio
  /\ max_comunas = 0
  /\ Construido
  /\ llamada \in Llamadas
  /\ retorno = Pendiente

\* the variables of a run of ejecutar_extraccion
corrida ==
  << config, recorrido, acumulado, driver, cierres, abiertas, pc, df_final, resultado,
     error >>

\* self.simplificar_nombre_candidato(nombre_completo)
LlamarSimplificar ==
  /\ llamada.metodo = "simplificar_nombre_candidato"
  /\ ~retorno.hecho
  /\ retorno' = Retorna(simplificar_nombre_candidato(llamada.mapeo_candidatos,
                                                     llamada.args[1]))
  /\ UNCHANGED << llamada, corrida >>

\* self._procesar_tabla_resultados(), the browser showing the page args[1]
LlamarProcesarTabla ==
  /\ llamada.metodo = "_procesar_tabla_resultados"
  /\ ~retorno.hecho
  /\ retorno' = Retorna(_procesar_tabla_resultados(llamada.mapeo_candidatos,
                                                   llamada.args[1]))
  /\ UNCHANGED << llamada, corrida >>

\* self.normalizar_nombre_comuna(nombre_comuna)
LlamarNormalizarComuna ==
  /\ llamada.metodo = "normalizar_nombre_comuna"
  /\ ~retorno.hecho
  /\ retorno' = Retorna(normalizar_nombre_comuna(llamada.args[1]))
  /\ UNCHANGED << llamada, corrida >>

\* self.normalizar_nombre_region(nombre_region)
LlamarNormalizarRegion ==
  /\ llamada.metodo = "normalizar_nombre_region"
  /\ ~retorno.hecho
  /\ retorno' = Retorna(normalizar_nombre_region(llamada.args[1]))
  /\ UNCHANGED << llamada, corrida >>

\* self._crear_dataframe_final() on an object whose self.datos_completos is args[1]
LlamarCrearDataframe ==
  /\ llamada.metodo = "_crear_dataframe_final"
  /\ ~retorno.hecho
  /\ retorno' = Retorna(_crear_dataframe_final(llamada.args[1]))
  /\ UNCHANGED << llamada, corrida >>

\* self._procesar_fila(celdas, datos_candidatos, datos_totales) with two empty dicts
LlamarProcesarFila ==
  /\ llamada.metodo = "_procesar_fila"
  /\ ~retorno.hecho
  /\ retorno' =
       Retorna(_procesar_fila(llamada.mapeo_candidatos, llamada.args[1],
                              [nada |-> FALSE, candidatos |-> DictVacio,
                               totales |-> DictVacio]))
  /\ UNCHANGED << llamada, corrida >>

NextMetodos ==
  \/ LlamarSimplificar
  \/ LlamarProcesarTabla
  \/ LlamarNormalizarComuna
  \/ LlamarNormalizarRegion
  \/ LlamarCrearDataframe
  \/ LlamarProcesarFila

SpecMetodos == InitMetodos /\ [][NextMetodos]_vars

---------------------------------------------------------------------------
(* Properties                                                              *)

\* the attempts that recorded a comuna
Exitos == {i \in 1..Len(intentos) : intentos[i].causa = "exito"}

\* the last element of a non-empty sequence
Ultimo(s) == s[Len(s)]

\* the step is a call of _procesar_comuna_individual
PasoComuna == pc = "comunas" /\ Len(intentos') = Len(intentos) + 1

\* C1: with a cap c > 0 configured, the number of calls of _procesar_comuna_individual
\* made so far, successful or failed, never exceeds c.
C1_IntentosBajoTope == max_comunas > 0 => Len(intentos) <= max_comunas

\* C2: the assembled matrix has exactly one row per key of datos_completos and no
\* other row, the keys being the normalized names of the comunas recorded so far;
\* the matrix returned by ejecutar_extraccion is that assembly.
C2_UnaFilaPorClave ==
  LET df  == _crear_dataframe_final(datos_completos)
      ids == {<<df.filas[i][1], df.filas[i][2]>> : i \in 1..Len(df.filas)}
  IN  /\ ids = Claves(datos_completos)
      /\ Cardinality(ids) = Len(df.filas)
      /\ ids = {intentos[i].clave : i \in Exitos}
      /\ pc \in {"guardar", "finally", "fin"} /\ resultado # "excepcion" => df_final = df

\* C2 witness: a key was recorded twice, another key once, and the matrix was returned
C2_Testigo ==
  /\ pc = "fin"
  /\ resultado = "retorno"
  /\ Len(datos_completos) >= 2
  /\ Cardinality(Exitos) > Len(datos_completos)

\* a sequence of str is strictly increasing
Creciente(s) == \A i \in 1..(Len(s) - 1) : StrLt(s[i], s[i + 1])

Rango(s) == {s[i] : i \in 1..Len(s)}

RECURSIVE Reverso(_)
Reverso(s) == IF s = <<>> THEN <<>> ELSE Reverso(Tail(s)) \o <<Head(s)>>

\* C3: the schema is the union of the candidate names and the union of the aggregate
\* names of the stored records, each kind sorted, candidates before aggregates, two
\* columns per name; a store holding the same entries in reverse order has the same schema.
C3_EsquemaUnionOrdenada ==
  LET dc  == datos_completos
      tc  == TodosCandidatos(dc)
      tt  == TodosTotales(dc)
      df  == _crear_dataframe_final(dc)
      nombres == tc \o tt
  IN  /\ Rango(tc) = UNION {DOMAIN dc[i].datos.candidatos : i \in 1..Len(dc)}
      /\ Rango(tt) = UNION {DOMAIN dc[i].datos.totales : i \in 1..Len(dc)}
      /\ Creciente(tc)
      /\ Creciente(tt)
      /\ Len(df.columnas) = 2 + 2 * Len(nombres)
      /\ df.columnas[1] = col_comuna
      /\ df.columnas[2] = col_region
      /\ \A j \in 1..Len(nombres) :
           /\ df.columnas[2 * j + 1] = nombres[j] \o sufijo_votos
           /\ df.columnas[2 * j + 2] = nombres[j] \o sufijo_pct
      /\ _crear_dataframe_final(Reverso(dc)).columnas = df.columnas

\* C3 witness: two records with different names, inserted against the sorted order
C3_Testigo ==
  /\ Len(datos_completos) >= 2
  /\ Len(TodosCandidatos(datos_completos)) >= 3
  /\ Len(TodosTotales(datos_completos)) >= 2
  /\ DOMAIN datos_completos[1].datos.candidatos # DOMAIN datos_completos[2].datos.candidatos
  /\ \E n \in DOMAIN datos_completos[2].datos.candidatos :
       \E m \in DOMAIN datos_completos[1].datos.candidatos :
         n \notin DOMAIN datos_completos[1].datos.candidatos /\ StrLt(n, m)

\* the entities (kind and name) of one stored record
EntidadesDe(datos) ==
  {<<"candidato", n>> : n \in DOMAIN datos.candidatos}
    \cup {<<"total", n>> : n \in DOMAIN datos.totales}

\* the entities seen in the store
EntidadesVistas(dc) == UNION {EntidadesDe(dc[i].datos) : i \in 1..Len(dc)}

\* the schema: one entry per count/share pair of columns, in column order
Esquema(dc) ==
  LET tc == TodosCandidatos(dc)
      tt == TodosTotales(dc)
  IN  [j \in 1..(Len(tc) + Len(tt)) |->
         IF j <= Len(tc) THEN <<"candidato", tc[j]>> ELSE <<"total", tt[j - Len(tc)]>>]

\* the count/share pair of entity e in the row of key 'clave' of the matrix of dc
Celda(dc, clave, e) ==
  LET df  == _crear_dataframe_final(dc)
      esq == Esquema(dc)
      i   == CHOOSE x \in 1..Len(df.filas) : <<df.filas[x][1], df.filas[x][2]>> = clave
      j   == CHOOSE x \in 1..Len(esq) : esq[x] = e
  IN  <<df.filas[i][2 * j + 1], df.filas[i][2 * j + 2]>>

\* the value a stored record gives to entity e, <<0, 0.0>> when it lacks e
ValorEn(datos, e) ==
  LET d == IF e[1] = "candidato" THEN datos.candidatos ELSE datos.totales
  IN  IF e[2] \in DOMAIN d THEN <<d[e[2]].votos, d[e[2]].porcentaje>> ELSE <<0, Cero>>

\* every row of the matrix of dc shows, for every schema entity, its record's value or zero
FilasDensas(dc) ==
  /\ Len(_crear_dataframe_final(dc).filas) = Len(dc)
  /\ \A i \in 1..Len(dc) :
       /\ Len(_crear_dataframe_final(dc).filas[i]) = 2 + 2 * Len(Esquema(dc))
       /\ \A e \in Rango(Esquema(dc)) :
            Celda(dc, dc[i].clave, e) = ValorEn(dc[i].datos, e)

\* the step records a comuna
PasoExito == PasoComuna /\ Ultimo(intentos').causa = "exito"

\* the step records a comuna whose record holds exactly one entity not seen before
PasoUnaNueva ==
  /\ PasoExito
  /\ LET clave == Ultimo(intentos').clave
         nuevo == datos_completos'[IndiceClave(datos_completos', clave)].datos
     IN  Cardinality(EntidadesDe(nuevo) \ EntidadesVistas(datos_completos)) = 1

\* the schema after the step is the schema before plus the one new entity, and the
\* rows of the other comunas keep their values in the old columns and show zero in the new
UnaColumnaMas ==
  LET clave  == Ultimo(intentos').clave
      nuevo  == datos_completos'[IndiceClave(datos_completos', clave)].datos
      nuevas == EntidadesDe(nuevo) \ EntidadesVistas(datos_completos)
  IN  /\ Rango(Esquema(datos_completos')) = Rango(Esquema(datos_completos)) \cup nuevas
      /\ Len(Esquema(datos_completos')) = Len(Esquema(datos_completos)) + 1
      /\ Len(_crear_dataframe_final(datos_completos').columnas)
           = Len(_crear_dataframe_final(datos_completos).columnas) + 2
      /\ \A i \in 1..Len(datos_completos) :
           datos_completos[i].clave # clave =>
             /\ \A e \in Rango(Esquema(datos_completos)) :
                  Celda(datos_completos', datos_completos[i].clave, e)
                    = Celda(datos_completos, datos_completos[i].clave, e)
             /\ \A e \in nuevas :
                  Celda(datos_completos', datos_completos[i].clave, e) = <<0, Cero>>

\* C4 as stated: recording a comuna whose record holds one entity never seen before
\* adds exactly one count/share pair of columns and changes no other column, and the
\* rows are dense (zero where the comuna lacks the entity, its own values otherwise).
C4_Original ==
  [][PasoExito => /\ FilasDensas(datos_completos')
                  /\ (PasoUnaNueva => UnaColumnaMas)]_vars

\* C4 amended: the same, for a comuna recorded under a key that is not yet in the store.
C4_ColumnaNuevaClaveNueva ==
  [][PasoExito =>
       /\ FilasDensas(datos_completos')
       /\ (PasoUnaNueva /\ Ultimo(intentos').clave \notin Claves(datos_completos)
             => UnaColumnaMas)]_vars

\* C4 witness: the last comuna recorded came under a new key, with exactly one entity
\* that no earlier record has, and the store holds earlier records
C4_Testigo ==
  /\ Len(datos_completos) >= 2
  /\ intentos # <<>>
  /\ Ultimo(intentos).causa = "exito"
  /\ Ultimo(intentos).clave = Ultimo(datos_completos).clave
  /\ Cardinality(EntidadesDe(Ultimo(datos_completos).datos)
       \ EntidadesVistas(SubSeq(datos_completos, 1, Len(datos_completos) - 1))) = 1

\* the record _procesar_comuna_individual stores for what it extracted from 'pagina'
Registro(pagina) ==
  [candidatos |-> _extraer_datos_comuna(MAPEO_CANDIDATOS, pagina).candidatos,
   totales    |-> _extraer_datos_comuna(MAPEO_CANDIDATOS, pagina).totales]

\* the records the site can yield for the comuna attempted by the step
RegistrosPosibles ==
  {Registro(p) : p \in {q \in PaginasDe(comunas[ci]) : Causa(q) = "exito"}}

\* C5: recording a comuna under a key already in the store replaces that key's record
\* with the new one, and leaves the number of entries and every other entry as they
\* were; recording under a new key adds exactly one entry.
C5_SobrescribeOAgrega ==
  [][PasoExito =>
       LET clave == Ultimo(intentos').clave
       IN  IF clave \in Claves(datos_completos)
           THEN /\ Len(datos_completos') = Len(datos_completos)
                /\ \A i \in 1..Len(datos_completos) :
                     /\ datos_completos'[i].clave = datos_completos[i].clave
                     /\ datos_completos[i].clave # clave
                          => datos_completos'[i] = datos_completos[i]
                     /\ datos_completos[i].clave = clave
                          => datos_completos'[i].datos \in RegistrosPosibles
           ELSE /\ Len(datos_completos') = Len(datos_completos) + 1
                /\ SubSeq(datos_completos', 1, Len(datos_completos)) = datos_completos
                /\ Ultimo(datos_completos').clave = clave
                /\ Ultimo(datos_completos').datos \in RegistrosPosibles]_vars

\* C5 witness: the last comuna recorded came under the key of an earlier one, whose
\* record (that of PaginaA) it replaced with a different one, other entries standing by
C5_Testigo ==
  /\ Len(datos_completos) = 2
  /\ Ultimo(intentos).causa = "exito"
  /\ Ultimo(intentos).clave = datos_completos[2].clave
  /\ Cardinality({i \in Exitos : intentos[i].clave = datos_completos[2].clave}) = 2
  /\ intentos[Len(intentos) - 1].causa = "exito"
  /\ datos_completos[2].datos # Registro(PaginaA)

\* the step is an attempt at a comuna whose results table is not found
PasoSinTabla == PasoComuna /\ Ultimo(intentos').causa = "sin_tabla"

\* the keys of the attempts that ended as 'causa'
ClavesDe(causa) == {intentos[i].clave : i \in {j \in 1..Len(intentos) : intentos[j].causa = causa}}

\* C6: an attempt whose results table is not found adds one to comunas_con_error and
\* changes nothing else: comunas_procesadas and datos_completos stay, no partial save is
\* made, and the final matrix has no row for that comuna.
C6_SinTablaSoloError ==
  /\ [][PasoSinTabla =>
          /\ comunas_con_error' = comunas_con_error + 1
          /\ comunas_procesadas' = comunas_procesadas
          /\ datos_completos' = datos_completos
          /\ parciales' = parciales
          /\ _crear_dataframe_final(datos_completos') = _crear_dataframe_final(datos_completos)
          /\ UNCHANGED << config, selecciones, pc, driver, cierres, df_final, resultado >>]_vars
  /\ [](resultado = "retorno" =>
          \A clave \in ClavesDe("sin_tabla") \ ClavesDe("exito") :
            \A i \in 1..Len(df_final.filas) :
              <<df_final.filas[i][1], df_final.filas[i][2]>> # clave)

\* C6 witness: the run returned a matrix with rows, after an attempt that found no table
\* for a comuna that no other attempt recorded
C6_Testigo ==
  /\ resultado = "retorno"
  /\ df_final.filas # <<>>
  /\ ClavesDe("sin_tabla") \ ClavesDe("exito") # {}
\* the comunas of the regions from the i-th on, each with its region's index, in the
\* order the site lists them
RECURSIVE Enumeracion(_)
Enumeracion(i) ==
  IF i > Len(regiones) THEN <<>>
  ELSE LET lista == _obtener_comunas_region(regiones[i])
       IN  [k \in 1..Len(lista) |-> <<i, lista[k]>>] \o Enumeracion(i + 1)

\* the attempts made, as pairs of region index and comuna label
Intentados == [k \in 1..Len(intentos) |-> <<intentos[k].region, intentos[k].comuna>>]

\* the causes of the attempts made
Causas == {intentos[k].causa : k \in 1..Len(intentos)}

\* C7: a failed attempt (no table, nothing extracted, an exception while selecting or
\* reading the comuna) never stops the walk: without a cap, once the regions are
\* enumerated, the walk reaches the final assembly, and by then every comuna of every
\* region has been attempted exactly once, in the order of enumeration.
C7_FallosNoDetienen ==
  /\ [](max_comunas = 0 /\ pc = "ensamblar" => Intentados = Enumeracion(1))
  /\ [](max_comunas = 0 /\ pc \in {"regiones", "comunas"}
          => Intentados = SubSeq(Enumeracion(1), 1, Len(intentos)))
  /\ (max_comunas = 0 /\ pc = "regiones" /\ regiones # <<>>) ~> (pc = "ensamblar")

\* C7 witness: the walk without a cap has reached the final assembly after attempts that
\* failed in each of the three ways and an attempt that succeeded after a failure
C7_Testigo ==
  /\ max_comunas = 0
  /\ pc = "ensamblar"
  /\ {"sin_tabla", "sin_candidatos", "excepcion"} \subseteq Causas
  /\ \E k \in 2..Len(intentos) :
       intentos[k].causa = "exito" /\ intentos[k - 1].causa # "exito"

\* the cap is configured and comunas_procesadas has reached it
TopeAlcanzado == max_comunas > 0 /\ comunas_procesadas >= max_comunas

\* C8: the cap is tested before every comuna and before every region: once
\* comunas_procesadas has reached it, no further comuna is attempted, no region is
\* selected or enumerated, and the run goes from the comuna loop to the region loop and
\* from there to the final assembly.
C8_TopeDetieneRecorrido ==
  [][TopeAlcanzado /\ pc \in {"regiones", "comunas"} =>
       /\ intentos' = intentos
       /\ selecciones' = selecciones
       /\ UNCHANGED << datos_completos, comunas_procesadas, comunas_con_error, parciales,
                       comunas, ci, region_normalizada >>
       /\ pc = "comunas" => pc' = "regiones"
       /\ pc = "regiones" => pc' = "ensamblar"]_vars

\* C8 witness: the run is at the final assembly with the cap reached, comunas of the
\* last region entered not attempted and a later region never selected
C8_Testigo ==
  /\ pc = "ensamblar"
  /\ TopeAlcanzado
  /\ ci <= Len(comunas)
  /\ Len(selecciones) < Len(regiones)
  /\ Len(intentos) < Len(Enumeracion(1))
\* C9: _guardar_progreso_parcial is called exactly when a recorded comuna brings
\* comunas_procesadas to a positive multiple of 10, once for each such comuna: never by a
\* failed attempt, never at another count, and with the comuna's record already in
\* datos_completos.
C9_ParcialCadaDiez ==
  [][/\ (PasoExito /\ comunas_procesadas' % 10 = 0) <=> parciales' # parciales
     /\ parciales' # parciales =>
          /\ Len(parciales') = Len(parciales) + 1
          /\ SubSeq(parciales', 1, Len(parciales)) = parciales
          /\ comunas_procesadas' = comunas_procesadas + 1
          /\ comunas_procesadas' > 0
          /\ Ultimo(parciales').procesadas = comunas_procesadas'
          /\ Ultimo(parciales').df = _crear_dataframe_final(datos_completos')
          /\ Ultimo(intentos').clave \in Claves(datos_completos')
          /\ \E i \in 1..Len(Ultimo(parciales').df.filas) :
               <<Ultimo(parciales').df.filas[i][1], Ultimo(parciales').df.filas[i][2]>>
                 = Ultimo(intentos').clave
     /\ Len(parciales') = comunas_procesadas' \div 10]_vars

\* C9 witness: two partial saves were made, at 10 and at 20 comunas, in a walk in which
\* an attempt failed before the second
C9_Testigo ==
  /\ Len(parciales) = 2
  /\ parciales[1].procesadas = 10
  /\ parciales[2].procesadas = 20
  /\ comunas_con_error >= 1
  /\ Ultimo(intentos).causa = "exito"

\* the step calls _guardar_progreso_parcial and the partial file is not written
PasoParcialFallido ==
  /\ Len(parciales') = Len(parciales) + 1
  /\ ~Ultimo(parciales').escrito

\* C10: a partial save that fails neither aborts the run nor alters the walk: the store
\* and the two counters are what they are when the save succeeds, the comuna that
\* triggered it counts as processed and not as an error, and the walk goes on with the
\* next comuna.
C10_FalloParcialIgnorado ==
  [][PasoParcialFallido =>
       /\ Ultimo(intentos').causa = "exito"
       /\ comunas_procesadas' = comunas_procesadas + 1
       /\ comunas_con_error' = comunas_con_error
       /\ \E registro \in RegistrosPosibles :
            datos_completos' = Insertar(datos_completos, Ultimo(intentos').clave, registro)
       /\ Ultimo(parciales').df = _crear_dataframe_final(datos_completos')
       /\ pc = "comunas" /\ pc' = "comunas"
       /\ ci' = ci + 1
       /\ UNCHANGED << comunas, ri, regiones, resultado, driver, cierres >>]_vars

\* C10 witness: the first partial save failed and the walk went on to record more comunas
\* and to return the matrix
C10_Testigo ==
  /\ parciales # <<>>
  /\ ~parciales[1].escrito
  /\ comunas_procesadas > parciales[1].procesadas
  /\ resultado = "retorno"
  /\ Len(df_final.filas) = comunas_procesadas

\* the step is the call of _obtener_regiones that yields no region
PasoSinRegiones == pc = "obtener_regiones" /\ regiones' = <<>>

\* C11: when _obtener_regiones yields no region (the selector lists none, or reading it
\* raises), ejecutar_extraccion raises at once: no comuna has been or will be attempted,
\* no region is selected, datos_completos stays empty, both counters stay 0, and neither
\* _crear_dataframe_final nor _guardar_resultados_finales is ever reached.
C11_SinRegionesAborta ==
  /\ [][PasoSinRegiones =>
          /\ pc' = "finally"
          /\ resultado' = "excepcion"
          /\ error' = "sin_regiones"]_vars
  /\ [][error = "sin_regiones" => error' = "sin_regiones"]_vars
  /\ [](error = "sin_regiones" =>
          /\ pc \in {"finally", "fin"}
          /\ resultado = "excepcion"
          /\ datos_completos = <<>>
          /\ comunas_procesadas = 0
          /\ comunas_con_error = 0
          /\ intentos = <<>>
          /\ selecciones = <<>>
          /\ parciales = <<>>
          /\ df_final = SinMatriz)

\* C11 witness: the run has ended by the exception raised for a site that lists no
\* region, the browser session closed
C11_Testigo ==
  /\ sitio = SitioVacio
  /\ error = "sin_regiones"
  /\ pc = "fin"
  /\ driver
  /\ cierres = 1

\* "if datos_candidatos:" for what _extraer_datos_comuna returns on 'pagina'
HayCandidatos(pagina) ==
  /\ ~_extraer_datos_comuna(MAPEO_CANDIDATOS, pagina).nada
  /\ DOMAIN _extraer_datos_comuna(MAPEO_CANDIDATOS, pagina).candidatos # {}

\* C12: every call of _procesar_comuna_individual adds one to exactly one of the two
\* counters: to comunas_procesadas, with the record stored under the comuna's key, when
\* and only when the extraction returned at least one candidate; otherwise to
\* comunas_con_error with datos_completos unchanged, a table of aggregate rows only
\* included.
C12_UnContadorPorIntento ==
  /\ [][PasoComuna =>
          \E pagina \in PaginasDe(comunas[ci]) :
            /\ Ultimo(intentos').causa = Causa(pagina)
            /\ IF HayCandidatos(pagina)
               THEN /\ comunas_procesadas' = comunas_procesadas + 1
                    /\ comunas_con_error' = comunas_con_error
                    /\ Ultimo(intentos').clave \in Claves(datos_completos')
                    /\ datos_completos'[IndiceClave(datos_completos',
                                                    Ultimo(intentos').clave)].datos
                         = Registro(pagina)
               ELSE /\ comunas_con_error' = comunas_con_error + 1
                    /\ comunas_procesadas' = comunas_procesadas
                    /\ datos_completos' = datos_completos]_vars
  /\ [][PasoComuna /\ Ultimo(intentos').causa = "sin_candidatos" =>
          /\ comunas_con_error' = comunas_con_error + 1
          /\ comunas_procesadas' = comunas_procesadas
          /\ datos_completos' = datos_completos]_vars
  /\ [](/\ comunas_procesadas + comunas_con_error = Len(intentos)
        /\ comunas_procesadas = Cardinality(Exitos))

\* C12 witness: the first attempt read a table of aggregate rows only, the second
\* recorded a comuna; one counter moved for each
C12_Testigo ==
  /\ Len(intentos) = 2
  /\ intentos[1].causa = "sin_candidatos"
  /\ intentos[2].causa = "exito"
  /\ comunas_procesadas = 1
  /\ comunas_con_error = 1
  /\ Len(datos_completos) = 1

\* the longest suffix of s that holds no whitespace
RECURSIVE Cola(_)
Cola(s) ==
  IF s = <<>> \/ IsSpace(s[Len(s)]) THEN <<>>
  ELSE Cola(SubSeq(s, 1, Len(s) - 1)) \o <<s[Len(s)]>>

\* the last whitespace-delimited token of s, <<>> when s has none
UltimaPalabra(s) == Cola(RStrip(s))

\* r is the token t in lower case with every character outside [a-zA-Z0-9_] replaced by "_"
EsSlugDe(r, t) ==
  /\ Len(r) = Len(t)
  /\ \A i \in 1..Len(t) :
       r[i] = IF (LowerC(t[i]) \in 97..122) \/ (t[i] \in 48..57) \/ t[i] = 95
              THEN LowerC(t[i]) ELSE 95

\* the call of simplificar_nombre_candidato has returned
SimplificarRetorna == llamada.metodo = "simplificar_nombre_candidato" /\ retorno.hecho

\* C14: simplificar_nombre_candidato returns a non-empty string for every raw label and
\* every alias table: candidato_desconocido for an empty or whitespace-only label, and
\* for any other label a short form of the alias table or the slug of its last
\* whitespace-delimited token.
C14_SiempreNombre ==
  SimplificarRetorna =>
    LET m      == llamada.mapeo_candidatos
        nombre == llamada.args[1]
    IN  /\ retorno.valor # <<>>
        /\ IF UltimaPalabra(nombre) = <<>>
           THEN retorno.valor = candidato_desconocido
           ELSE \/ \E i \in 1..Len(m) : retorno.valor = m[i][2]
                \/ EsSlugDe(retorno.valor, UltimaPalabra(nombre))

\* the keys and the short forms of the alias table are non-empty
MapeoSinVacios(m) == \A i \in 1..Len(m) : m[i][1] # <<>> /\ m[i][2] # <<>>

\* C14 for the alias tables that hold no empty key and no empty short form
C14_ConMapeoSinVacios ==
  MapeoSinVacios(llamada.mapeo_candidatos) => C14_SiempreNombre

\* the key under which an aggregate row of FilasTabla is to be recorded
Agregado ==
  FilaBlanco :> blanco @@ FilaNulos :> nulo @@ FilaEmitidos :> emitidos
  @@ FilaTotal :> emitidos

\* the count and the share written in each row of FilasTabla
Lectura ==
  FilaPerez :> [votos |-> 1234, porcentaje |-> [neg |-> FALSE, mant |-> 456, exp |-> 1]]
  @@ FilaPerezB :> [votos |-> 500, porcentaje |-> [neg |-> FALSE, mant |-> 15, exp |-> 0]]
  @@ FilaKast :> [votos |-> 2000, porcentaje |-> [neg |-> FALSE, mant |-> 60, exp |-> 0]]
  @@ FilaJara :> [votos |-> 7, porcentaje |-> [neg |-> FALSE, mant |-> 15, exp |-> 1]]
  @@ FilaBlanco :> [votos |-> 10, porcentaje |-> [neg |-> FALSE, mant |-> 4, exp |-> 1]]
  @@ FilaNulos :> [votos |-> 3, porcentaje |-> [neg |-> FALSE, mant |-> 1, exp |-> 1]]
  @@ FilaEmitidos :> [votos |-> 1244, porcentaje |-> [neg |-> FALSE, mant |-> 100, exp |-> 0]]
  @@ FilaTotal :> [votos |-> 9, porcentaje |-> [neg |-> FALSE, mant |-> 1, exp |-> 0]]

perez == <<112, 101, 114, 101, 122>>

\* the call of _procesar_tabla_resultados has returned
TablaRetorna == llamada \in LlamadasTablaLegible /\ retorno.hecho

\* the dict that holds, for every key of the rows of 'filas' at the indices 'indices',
\* the reading of the last such row with that key
DictEsperado(filas, indices, ClaveDe(_)) ==
  [k \in {ClaveDe(filas[i]) : i \in indices} |->
     Lectura[filas[CHOOSE i \in indices :
                     /\ ClaveDe(filas[i]) = k
                     /\ \A j \in indices : j > i => ClaveDe(filas[j]) # k]]]

\* C13: _procesar_tabla_resultados on a table of candidate, blank, void and total rows
\* returns one candidate entry per simplified candidate name and one entry per
\* aggregate, the count read without its thousands dots and the share with its decimal
\* comma as a point; with no alias the rows ("JUAN PEREZ", "1.234", "45,6"),
\* ("BLANCO", "10", "0,4"), ("TOTAL EMITIDOS", "1.244", "100,0") give
\* {perez: 1234 / 45.6} and {blanco: 10 / 0.4, emitidos: 1244 / 100.0}.
C13_TablaExtraida ==
  TablaRetorna =>
    LET m     == llamada.mapeo_candidatos
        filas == llamada.args[1].tablas[1].filas
        r     == retorno.valor
        agregadas  == {i \in 1..Len(filas) : filas[i] \in DOMAIN Agregado}
        candidatas == (1..Len(filas)) \ agregadas
        ClaveAgregado(f)  == Agregado[f]
        ClaveCandidato(f) == simplificar_nombre_candidato(m, f.celdas[1])
    IN  /\ ~r.nada
        /\ r.candidatos = DictEsperado(filas, candidatas, ClaveCandidato)
        /\ r.totales = DictEsperado(filas, agregadas, ClaveAgregado)
        /\ m = <<>> /\ llamada.args[1] = PaginaA =>
             /\ r.candidatos = (perez :> Lectura[FilaPerez])
             /\ r.totales = (blanco :> Lectura[FilaBlanco] @@ emitidos :> Lectura[FilaEmitidos])

\* C13 witness: the call on the three rows of the example, with no alias, has returned
\* one candidate and two aggregates
C13_Testigo ==
  /\ TablaRetorna
  /\ llamada.mapeo_candidatos = <<>>
  /\ llamada.args[1] = PaginaA
  /\ DOMAIN retorno.valor.candidatos = {perez}
  /\ DOMAIN retorno.valor.totales = {blanco, emitidos}
  /\ retorno.valor.candidatos[perez].votos = 1234

\* the call of normalizar_nombre_comuna has returned
ComunaRetorna == llamada.metodo = "normalizar_nombre_comuna" /\ retorno.hecho

\* C15: for every name N of nombres_especificos, normalizar_nombre_comuna of N written
\* in upper case returns exactly N.
C15_NombreEspecificoGana ==
  ComunaRetorna =>
    \A i \in 1..Len(nombres_especificos) :
      llamada.args[1] = Upper(nombres_especificos[i][1]) =>
        retorno.valor = nombres_especificos[i][1]

\* the names of nombres_especificos that hold no word of 'correcciones' and do not
\* begin with "ñ"
SinConectorInicial(nombre) ==
  /\ nombre # <<>>
  /\ LowerC(nombre[1]) # 241
  /\ \A k \in 1..Len(correcciones) :
       SubPalabra(correcciones[k][1], correcciones[k][2], nombre) = nombre

\* C15 for the names that hold no capitalized connector word and no initial "Ñ"
C15_SinConectorInicial ==
  ComunaRetorna =>
    \A i \in 1..Len(nombres_especificos) :
      /\ llamada.args[1] = Upper(nombres_especificos[i][1])
      /\ SinConectorInicial(nombres_especificos[i][1])
      => retorno.valor = nombres_especificos[i][1]

\* the call of normalizar_nombre_region has returned
RegionRetorna == llamada.metodo = "normalizar_nombre_region" /\ retorno.hecho

\* the result for a label that is a key of mapeo_especial, in any letter case, is the
\* key's value
RegionDeTabla ==
  \A i \in 1..Len(mapeo_especial) :
    Upper(llamada.args[1]) = mapeo_especial[i][1] => retorno.valor = mapeo_especial[i][2]

\* the result for a label made of a prefix of 'prefijos', a space and a rest begins with
\* the rest's first word, capitalized
PrefijoQuitado(prefijos) ==
  \A p \in prefijos, resto \in RestosRegion :
    llamada.args[1] = p \o <<32>> \o resto =>
      /\ retorno.valor # <<>>
      /\ Split(retorno.valor)[1] = Capitalize(Split(resto)[1])

\* C16: normalizar_nombre_region returns the value of mapeo_especial for a label that
\* is one of its keys, and for any other label removes the whole leading prefix DE, DEL,
\* DE LA or DE LOS, in any letter case: the result of "DE LA X" and of "DE LOS X" begins
\* with "X", not with "La" or "Los".
C16_PrefijoCompleto ==
  RegionRetorna => RegionDeTabla /\ PrefijoQuitado(PrefijosEscritos)

\* C16 for the prefixes of one word, DE and DEL
C16_PrefijoDeUnaPalabra ==
  RegionRetorna =>
    RegionDeTabla /\ PrefijoQuitado({p \in PrefijosEscritos : Len(Split(p)) = 1})

\* the call of _crear_dataframe_final has returned
DataframeRetorna == llamada.metodo = "_crear_dataframe_final" /\ retorno.hecho

\* the sequences that hold the elements of s in another order, s included
Permutaciones(s) ==
  {[i \in 1..Len(s) |-> s[p[i]]] :
     p \in {q \in [1..Len(s) -> 1..Len(s)] : \A i, j \in 1..Len(s) : i # j => q[i] # q[j]}}

\* C17: the rows of the matrix are in increasing order of region name and, within a
\* region, of comuna name, whatever the order of insertion: every store that holds the
\* same entries in another order is assembled into the same sequence of rows.
C17_OrdenPorRegionYComuna ==
  DataframeRetorna =>
    LET filas == retorno.valor.filas
    IN  /\ \A i, j \in 1..Len(filas) :
             i < j => \/ StrLt(filas[i][2], filas[j][2])
                      \/ filas[i][2] = filas[j][2] /\ StrLt(filas[i][1], filas[j][1])
        /\ \A otro \in Permutaciones(llamada.args[1]) :
             _crear_dataframe_final(otro).filas = filas

\* C17 witness: a store of three entries of two regions, inserted last region first and
\* within the first region in decreasing order of comuna, was assembled
C17_Testigo ==
  /\ DataframeRetorna
  /\ Len(llamada.args[1]) = 3
  /\ llamada.args[1][1].clave = << <<65>>, <<82, 50>> >>
  /\ llamada.args[1][2].clave = << <<209>>, <<82, 49>> >>
  /\ llamada.args[1][3].clave = << <<66>>, <<82, 49>> >>
  /\ retorno.valor.filas[1][1] = <<66>>
  /\ retorno.valor.filas[2][1] = <<209>>
  /\ retorno.valor.filas[3][1] = <<65>>

\* the step is the final "df_final = self._crear_dataframe_final()"
PasoEnsamblar == pc = "ensamblar" /\ pc' = "guardar"

\* the step calls _guardar_progreso_parcial
PasoParcial == Len(parciales') = Len(parciales) + 1

\* C18: _crear_dataframe_final and _guardar_progreso_parcial only read datos_completos:
\* the final assembly leaves datos_completos and both counters as they were; a partial
\* save leaves datos_completos as the insertion made it and the counters as the
\* recording made them; and the final assembly made with no comuna recorded since the
\* last partial save returns the columns and the rows of that save.
C18_EnsamblarSoloLee ==
  /\ [][PasoEnsamblar =>
          /\ datos_completos' = datos_completos
          /\ comunas_procesadas' = comunas_procesadas
          /\ comunas_con_error' = comunas_con_error
          /\ df_final' = _crear_dataframe_final(datos_completos')]_vars
  /\ [][PasoParcial =>
          /\ \E r \in RegistrosPosibles :
               datos_completos' = Insertar(datos_completos, Ultimo(intentos').clave, r)
          /\ comunas_procesadas' = comunas_procesadas + 1
          /\ comunas_con_error' = comunas_con_error
          /\ Ultimo(parciales').df = _crear_dataframe_final(datos_completos')]_vars
  /\ [](/\ pc \in {"guardar", "finally", "fin"}
        /\ resultado # "excepcion"
        /\ parciales # <<>>
        /\ Ultimo(parciales).procesadas = comunas_procesadas
        => /\ df_final.columnas = Ultimo(parciales).df.columnas
           /\ df_final.filas = Ultimo(parciales).df.filas
           /\ Len(df_final.filas) = Len(datos_completos))

\* C18 witness: the run returned the matrix, assembled with no comuna recorded since the
\* partial save made at 20 comunas, the 21 comunas attempted
C18_Testigo ==
  /\ resultado = "retorno"
  /\ Len(parciales) = 2
  /\ Ultimo(parciales).procesadas = 20
  /\ comunas_procesadas = 20
  /\ Len(intentos) = NumComunasGrande
  /\ Len(datos_completos) = 20
  /\ Len(df_final.filas) = 20

\* the step selects a region whose comunas cannot be listed, or that lists none
PasoRegionSinComunas ==
  /\ pc = "regiones"
  /\ Len(selecciones') = Len(selecciones) + 1
  /\ _obtener_comunas_region(Ultimo(selecciones')) = <<>>

\* C19: a region for which _obtener_comunas_region returns no comuna (the list is empty
\* or reading it raises) is left without a call of _procesar_comuna_individual and with
\* datos_completos and both counters unchanged, and the loop goes on: the regions are
\* selected in the order of the list, none left out, the one after that region included.
C19_RegionSinComunasSaltada ==
  /\ [][PasoRegionSinComunas =>
          /\ pc' = "regiones"
          /\ ri' = ri + 1
          /\ UNCHANGED << datos_completos, comunas_procesadas, comunas_con_error,
                          intentos, parciales >>]_vars
  /\ [][pc = "regiones" /\ ri <= Len(regiones) /\ ~LimiteAlcanzado =>
          selecciones' = Append(selecciones, regiones[ri])]_vars
  /\ [](/\ Len(selecciones) <= Len(regiones)
        /\ \A i \in 1..Len(selecciones) : selecciones[i] = regiones[i]
        /\ \A k \in 1..Len(intentos) :
             _obtener_comunas_region(regiones[intentos[k].region]) # <<>>)

\* C19 witness: the run has ended after a region whose comunas could not be listed, a
\* region after it whose comunas were attempted, and a last region with no comuna
C19_Testigo ==
  /\ pc = "fin"
  /\ Len(selecciones) = 4
  /\ ~PorTexto(sitio, selecciones[2]).enumerable
  /\ PorTexto(sitio, selecciones[4]).enumerable
  /\ PorTexto(sitio, selecciones[4]).comunas = <<>>
  /\ \E k \in 1..Len(intentos) : intentos[k].region = 3
  /\ \A k \in 1..Len(intentos) : intentos[k].region \in {1, 3}

\* the call of _procesar_fila has returned
FilaRetorna == llamada.metodo = "_procesar_fila" /\ retorno.hecho

\* the row was recorded under 'clave' of the aggregates and nowhere else, or, its count
\* being unreadable, nowhere
SoloTotal(clave) ==
  /\ DOMAIN retorno.valor.candidatos = {}
  /\ DOMAIN retorno.valor.totales \subseteq {clave}
  /\ llamada.args[1][2] = <<49, 48>> => DOMAIN retorno.valor.totales = {clave}

\* the row was recorded under 'clave' of the candidates and nowhere else, or, its count
\* being unreadable, nowhere
SoloCandidato(clave) ==
  /\ DOMAIN retorno.valor.totales = {}
  /\ DOMAIN retorno.valor.candidatos \subseteq {clave}
  /\ llamada.args[1][2] = <<49, 48>> => DOMAIN retorno.valor.candidatos = {clave}

EnNingunLado ==
  DOMAIN retorno.valor.candidatos = {} /\ DOMAIN retorno.valor.totales = {}

\* C20: _procesar_fila files a row by the first rule that its label matches, in the
\* order blank, void, issued or total, candidate, in at most one of the two dicts: a
\* label with BLANCO and NULO goes to 'blanco' only, a label with TOTAL is never a
\* candidate, and a label without aggregate marker that is empty or holds VOTACIÓN,
\* CANDIDATO or PARTIDO goes nowhere.
C20_PrimeraReglaGana ==
  FilaRetorna =>
    LET nombre == Strip(llamada.args[1][1])
        u      == Upper(nombre)
    IN  /\ Cardinality(DOMAIN retorno.valor.candidatos)
             + Cardinality(DOMAIN retorno.valor.totales) <= 1
        /\ Contains(BLANCO, u) => SoloTotal(blanco)
        /\ ~Contains(BLANCO, u) /\ Contains(NULO, u) => SoloTotal(nulo)
        /\ /\ ~Contains(BLANCO, u)
           /\ ~Contains(NULO, u)
           /\ Contains(EMITIDO, u) \/ Contains(TOTAL, u)
           => SoloTotal(emitidos)
        /\ Contains(TOTAL, u) => DOMAIN retorno.valor.candidatos = {}
        /\ (\A marca \in {BLANCO, NULO, EMITIDO, TOTAL} : ~Contains(marca, u)) =>
             IF \/ nombre = <<>>
                \/ \E palabra \in {VOTACION, CANDIDATO, PARTIDO} : Contains(palabra, u)
             THEN EnNingunLado
             ELSE SoloCandidato(simplificar_nombre_candidato(llamada.mapeo_candidatos,
                                                             nombre))

\* C20 witness: the row labelled "nulo blanco" was filed under 'blanco' only
C20_Testigo ==
  /\ FilaRetorna
  /\ llamada.args[1][1] = Lower(NULO \o <<32>> \o BLANCO)
  /\ DOMAIN retorno.valor.totales = {blanco}
  /\ DOMAIN retorno.valor.candidatos = {}

---------------------------------------------------------------------------
(* Rows whose numbers cannot be read                                       *)

FilaNumerosRetorna == retorno.hecho /\ llamada \in LlamadasFilaNumeros

\* the entries the call made, whichever dict they are in
EntradasDeFila ==
  {retorno.valor.candidatos[k] : k \in DOMAIN retorno.valor.candidatos}
  \cup {retorno.valor.totales[k] : k \in DOMAIN retorno.valor.totales}

\* the text is made of the digits 0 to 9, at least one
SoloDigitos(s) == s # <<>> /\ \A i \in 1..Len(s) : s[i] \in 48..57

\* the text is a decimal number: an optional sign, then digits with at most one point
EsDecimal(s) ==
  LET t == Strip(s)
      u == IF t # <<>> /\ t[1] \in {43, 45} THEN Tail(t) ELSE t
  IN  /\ \A i \in 1..Len(u) : u[i] \in (48..57) \cup {46}
      /\ Cardinality({i \in 1..Len(u) : u[i] = 46}) <= 1
      /\ \E i \in 1..Len(u) : u[i] \in 48..57

\* the count cell without its dots, the share cell without its percent sign and with
\* a point for its comma
CuentaLeida == ReplaceChar(Strip(llamada.args[1][2]), 46, <<>>)

ParteLeida == ReplaceChar(ReplaceChar(Strip(llamada.args[1][3]), 37, <<>>), 44, <<46>>)

EntradaEsperada ==
  [votos      |-> IF SoloDigitos(CuentaLeida) THEN EnteroDe(CuentaLeida) ELSE 0,
   porcentaje |-> IF EsDecimal(ParteLeida) THEN Float(ParteLeida).valor ELSE Cero]

\* C21: a row whose count or share cannot be read is still recorded: the call makes one
\* entry, whose count is the number read when the count cell without its dots is all
\* digits and 0 otherwise, and whose share is the number read when the share cell
\* is a decimal number and 0.0 otherwise, each field whatever the other one is
C21_FilaIlegibleRegistrada ==
  FilaNumerosRetorna => EntradasDeFila = {EntradaEsperada}

\* the count cell is not made of digits that int() rejects, and the share cell is not
\* one of the words float() reads as a number
CeldasCorrientes ==
  /\ IsDigit(CuentaLeida) => AsciiDigitos(CuentaLeida)
  /\ Float(ParteLeida).valido => EsDecimal(ParteLeida)

C21_CeldasCorrientesRegistradas ==
  FilaNumerosRetorna /\ CeldasCorrientes => EntradasDeFila = {EntradaEsperada}

\* "-5" with "abc" gives 0 and 0.0; "12a" with "45,6%" gives 0 and 45.6
C21_Testigo ==
  /\ FilaNumerosRetorna
  /\ llamada.args[1][2] = <<49, 50, 97>>
  /\ llamada.args[1][3] = <<52, 53, 44, 54, 37>>
  /\ EntradasDeFila = {[votos |-> 0, porcentaje |-> [neg |-> FALSE, mant |-> 456, exp |-> 1]]}

---------------------------------------------------------------------------
(* Rows that raise while they are read                                     *)

TablaConFalloRetorna == llamada \in LlamadasTablaConFallo /\ retorno.hecho

\* reading the row raises
FilaFalla(fila) == fila \in {FilaObsoleta, FilaSuperindice}

\* the rows that raise nothing when they are read, in their order
RECURSIVE FilasSanas(_)
FilasSanas(filas) ==
  IF filas = <<>> THEN <<>>
  ELSE IF FilaFalla(Head(filas)) THEN FilasSanas(Tail(filas))
  ELSE <<Head(filas)>> \o FilasSanas(Tail(filas))

\* the page has a results table
TablaLocalizada(pagina) == pagina \notin {PaginaSinTabla, PaginaOtraTabla}

\* what the table gives without the rows that raise
SinFilasQueFallan(pagina) ==
  _procesar_tabla_resultados(llamada.mapeo_candidatos,
                             Pagina(FilasSanas(pagina.tablas[1].filas)))

\* C22: once the results table is located, a row that raises while it is read is
\* skipped alone: the call returns the entries of all the other rows, and it returns
\* (None, None) only when no results table is located
C22_SoloLaFilaSaltada ==
  TablaConFalloRetorna =>
    /\ retorno.valor.nada <=> ~TablaLocalizada(llamada.args[1])
    /\ TablaLocalizada(llamada.args[1]) =>
         retorno.valor = SinFilasQueFallan(llamada.args[1])

\* no row of the table raises an exception other than ValueError and IndexError
SinFilaObsoleta(pagina) ==
  \A t \in 1..Len(pagina.tablas) :
    \A i \in 1..Len(pagina.tablas[t].filas) : ~pagina.tablas[t].filas[i].obsoleta

C22_FilaConValueErrorSaltada ==
  TablaConFalloRetorna /\ SinFilaObsoleta(llamada.args[1]) =>
    /\ retorno.valor.nada <=> ~TablaLocalizada(llamada.args[1])
    /\ TablaLocalizada(llamada.args[1]) =>
         retorno.valor = SinFilasQueFallan(llamada.args[1])

\* a stale row makes the call return (None, None), wherever it is in the table
C22_FilaObsoletaSinResultado ==
  TablaConFalloRetorna /\ ~SinFilaObsoleta(llamada.args[1]) => retorno.valor.nada

\* the row with the superscript count between two rows that are recorded
C22_Testigo ==
  /\ TablaConFalloRetorna
  /\ llamada.args[1] = Pagina(<<FilaPerez, FilaSuperindice, FilaBlanco>>)
  /\ ~retorno.valor.nada
  /\ DOMAIN retorno.valor.candidatos = {perez}
  /\ DOMAIN retorno.valor.totales = {blanco}

---------------------------------------------------------------------------
(* Alias matches of the candidate labels                                   *)

\* the entries of the alias table whose key equals the label, ignoring letter case
IgualesSinCaja(mapeo_candidatos, nombre) ==
  {i \in 1..Len(mapeo_candidatos) : Upper(mapeo_candidatos[i][1]) = Upper(nombre)}

\* C23: when the raw label equals a key of the alias table ignoring letter case,
\* whatever the casing of the label and of the key, the short form of such a key is
\* returned, also when a key that is a substring of the label comes earlier in the table
C23_ExactaSinCaja ==
  SimplificarRetorna =>
    LET m      == llamada.mapeo_candidatos
        nombre == llamada.args[1]
    IN  IgualesSinCaja(m, nombre) # {} =>
          \E i \in IgualesSinCaja(m, nombre) : retorno.valor = m[i][2]

\* every key of the alias table is written in upper case
ClavesEnMayusculas(mapeo_candidatos) ==
  \A i \in 1..Len(mapeo_candidatos) : mapeo_candidatos[i][1] = Upper(mapeo_candidatos[i][1])

C23_ExactaConClavesEnMayusculas ==
  SimplificarRetorna /\ ClavesEnMayusculas(llamada.mapeo_candidatos) =>
    LET m      == llamada.mapeo_candidatos
        nombre == llamada.args[1]
    IN  IgualesSinCaja(m, nombre) # {} =>
          \E i \in IgualesSinCaja(m, nombre) : retorno.valor = m[i][2]

\* "J k" with {"K": "k_c", "J K": "jk"}: the exact key comes after a key found in the label
C23_Testigo ==
  /\ SimplificarRetorna
  /\ llamada.args[1] = <<74, 32, 107>>
  /\ Len(llamada.mapeo_candidatos) = 2
  /\ llamada.mapeo_candidatos[1][1] = <<75>>
  /\ retorno.valor = <<106, 107>>

\* the entries of the alias table whose key is the label in upper case without its
\* surrounding whitespace, and those whose key is found in it
ClavesExactas(mapeo_candidatos, nombre) ==
  {i \in 1..Len(mapeo_candidatos) : mapeo_candidatos[i][1] = Strip(Upper(nombre))}

ClavesParciales(mapeo_candidatos, nombre) ==
  {i \in 1..Len(mapeo_candidatos) : Contains(mapeo_candidatos[i][1], Strip(Upper(nombre)))}

\* C24: when no key of the alias table is the upper-cased label and some keys are
\* substrings of it, the short form of the first of these in table order is returned;
\* the slug of the last token (or the sentinel) is returned only when no key is a
\* substring of the upper-cased label
C24_PrimeraParcialGana ==
  SimplificarRetorna =>
    LET m         == llamada.mapeo_candidatos
        nombre    == llamada.args[1]
        halladas == ClavesParciales(m, nombre)
    IN  ClavesExactas(m, nombre) = {} =>
          IF halladas # {}
          THEN \E i \in halladas : /\ \A j \in halladas : i <= j
                                    /\ retorno.valor = m[i][2]
          ELSE IF UltimaPalabra(nombre) = <<>>
          THEN retorno.valor = candidato_desconocido
          ELSE EsSlugDe(retorno.valor, UltimaPalabra(nombre))

\* "J k" with {"K": "k_c", "J": "j_a"}: both keys are found, none is the label
C24_Testigo ==
  /\ SimplificarRetorna
  /\ llamada.args[1] = <<74, 32, 107>>
  /\ ClavesExactas(llamada.mapeo_candidatos, llamada.args[1]) = {}
  /\ ClavesParciales(llamada.mapeo_candidatos, llamada.args[1]) = {1, 2}
  /\ llamada.mapeo_candidatos[1][1] = <<75>>
  /\ retorno.valor = <<107, 95, 99>>

---------------------------------------------------------------------------
(* The counters, the cap and the browser session of a run                  *)

\* C25: the number of entries of datos_completos is the number of comunas counted as
\* processed, in every state of a run, so the count of the final summary and of the
\* file name is the number of rows of the final matrix, also when two raw comuna
\* labels of one region normalize to the same name
C25_EntradasIgualContador ==
  /\ Len(datos_completos) = comunas_procesadas
  /\ pc \in {"guardar", "finally", "fin"} /\ resultado # "excepcion" =>
       Len(df_final.filas) = comunas_procesadas

\* the keys of the comunas recorded so far are pairwise different
ClavesSinRepetir ==
  \A i, j \in Exitos : i # j => intentos[i].clave # intentos[j].clave

C25_EntradasIgualContadorSinRepetir ==
  /\ comunas_procesadas = Cardinality(Exitos)
  /\ Len(datos_completos) = Cardinality({intentos[i].clave : i \in Exitos})
  /\ Len(datos_completos) <= comunas_procesadas
  /\ ClavesSinRepetir =>
       /\ Len(datos_completos) = comunas_procesadas
       /\ pc \in {"guardar", "finally", "fin"} /\ resultado # "excepcion" =>
            Len(df_final.filas) = comunas_procesadas

\* three comunas were recorded under pairwise different keys and the matrix was returned
C25_Testigo ==
  /\ pc = "fin"
  /\ resultado # "excepcion"
  /\ ClavesSinRepetir
  /\ comunas_procesadas = 3
  /\ Len(df_final.filas) = 3

\* the comuna labels read from the selector of the region of index i
ListaDeRegion(i) == _obtener_comunas_region(regiones[i])

\* the places, in the list of its region, of the comuna of the attempt k
LugaresDe(k) ==
  {p \in 1..Len(ListaDeRegion(intentos[k].region)) :
     ListaDeRegion(intentos[k].region)[p] = intentos[k].comuna}

\* C26: with a cap c configured only the first c comunas of the list of each region
\* are ever attempted, in their order: the list walked holds at most c comunas, and
\* when it is exhausted the walk goes on to the next region, whatever the number of
\* comunas recorded
C26_SoloPrimerasDeCadaRegion ==
  max_comunas > 0 =>
    /\ \A k \in 1..Len(intentos) : \E p \in LugaresDe(k) : p <= max_comunas
    /\ pc = "comunas" =>
         /\ Len(comunas) <= max_comunas
         /\ comunas = SubSeq(ListaDeRegion(ri), 1, Len(comunas))

\* the comunas of the regions selected that were never attempted
NuncaIntentadas ==
  UNION {{<<i, ListaDeRegion(i)[p]>> : p \in 1..Len(ListaDeRegion(i))} :
           i \in {j \in 1..Len(regiones) : regiones[j] \in Rango(selecciones)}}
  \ Rango(Intentados)

\* C26 witness: the run has ended below the cap, after failed attempts, and the third
\* comuna of the first region, which lies beyond the cap, was never attempted although
\* a later region was walked
C26_Testigo ==
  /\ pc = "fin"
  /\ max_comunas = 2
  /\ comunas_procesadas < max_comunas
  /\ Len(intentos) = 4
  /\ intentos[1].causa # "exito" /\ intentos[2].causa # "exito"
  /\ <<1, ListaDeRegion(1)[3]>> \in NuncaIntentadas
  /\ intentos[3].region = 3

\* C27: with a positive cap c, comunas_procesadas and the number of entries of
\* datos_completos never exceed c, and from the state in which comunas_procesadas has
\* reached c on no step attempts a comuna or changes the store or the counters
C27_ContadorBajoTope ==
  /\ [](max_comunas > 0 =>
          /\ comunas_procesadas <= max_comunas
          /\ Len(datos_completos) <= max_comunas)
  /\ [][max_comunas > 0 /\ comunas_procesadas = max_comunas =>
          /\ intentos' = intentos
          /\ comunas_procesadas' = comunas_procesadas
          /\ datos_completos' = datos_completos]_vars

\* C27 witness: the run with cap 2 has ended with two comunas recorded in two attempts,
\* the other comunas of the site never attempted
C27_Testigo ==
  /\ pc = "fin"
  /\ max_comunas = 2
  /\ comunas_procesadas = 2
  /\ Len(datos_completos) = 2
  /\ Len(intentos) = 2
  /\ NuncaIntentadas # {}

\* C28: every browser session that was started is closed exactly once by the time
\* ejecutar_extraccion returns or raises, however the run ends, and never before;
\* when no session was started nothing is closed and the run ends by the exception
C28_SesionCerradaUnaVez ==
  /\ pc # "fin" => cierres = 0
  /\ pc = "fin" =>
       /\ cierres = abiertas
       /\ abiertas = 0 => resultado = "excepcion" /\ error = "en_llamada"

\* at most one session was started by inicializar_navegador
UnaSesion == abiertas <= 1

C28_UnaSesionCerradaUnaVez ==
  /\ pc # "fin" => cierres = 0
  /\ cierres <= 1
  /\ pc = "fin" =>
       /\ cierres = IF driver THEN 1 ELSE 0
       /\ driver <=> abiertas > 0
       /\ UnaSesion => cierres = abiertas
       /\ abiertas = 0 => resultado = "excepcion" /\ error = "en_llamada"

\* the ways a run ends
FinNormal == pc = "fin" /\ resultado = "retorno"

FinSinRegiones == pc = "fin" /\ error = "sin_regiones"

FinEnEnsamblado == pc = "fin" /\ error = "en_ensamblado"

FinEnFiltro == pc = "fin" /\ error = "en_llamada" /\ driver /\ regiones = <<>>

\* C28 witness: the run ended by the exception of the final assembly after comunas were
\* recorded, its one session closed once
C28_Testigo ==
  /\ FinEnEnsamblado
  /\ abiertas = 1
  /\ cierres = 1
  /\ comunas_procesadas > 0

C28_TestigoNormal == FinNormal /\ abiertas = 1 /\ cierres = 1

C28_TestigoSinRegiones == FinSinRegiones /\ abiertas = 1 /\ cierres = 1

C28_TestigoFiltro == FinEnFiltro /\ abiertas = 1 /\ cierres = 1

C28_TestigoSinSesion == pc = "fin" /\ abiertas = 0 /\ cierres = 0 /\ ~driver

---------------------------------------------------------------------------
(* Rows of one table with the same name                                    *)

\* the name under which the row of a table of FilasTabla is recorded
NombreDeFila(mapeo_candidatos, fila) ==
  IF fila \in DOMAIN Agregado THEN Agregado[fila]
  ELSE simplificar_nombre_candidato(mapeo_candidatos, fila.celdas[1])

\* C29: when two rows of one table are recorded under the same candidate name or the
\* same aggregate, the entry holds the count and the share of the later row: the result
\* has one entry per distinct name of the rows, with the values of the last row of
\* that name in table order
C29_UltimaFilaGana ==
  TablaRetorna =>
    LET m      == llamada.mapeo_candidatos
        filas  == llamada.args[1].tablas[1].filas
        r      == retorno.valor
        EsAgregada(i) == filas[i] \in DOMAIN Agregado
        Entrada(i) ==
          IF EsAgregada(i) THEN r.totales[NombreDeFila(m, filas[i])]
          ELSE r.candidatos[NombreDeFila(m, filas[i])]
    IN  /\ Cardinality(DOMAIN r.candidatos) + Cardinality(DOMAIN r.totales)
             = Cardinality({<<EsAgregada(i), NombreDeFila(m, filas[i])>> : i \in 1..Len(filas)})
        /\ \A i \in 1..Len(filas) :
             (\A j \in (i + 1)..Len(filas) :
                EsAgregada(j) # EsAgregada(i)
                \/ NombreDeFila(m, filas[j]) # NombreDeFila(m, filas[i]))
             => Entrada(i) = Lectura[filas[i]]

\* C29 witness: the row ("TOTAL EMITIDOS", "1.244", "100,0") and then the row
\* ("TOTAL", "9", "1,0"): the one entry emitidos holds 9
C29_Testigo ==
  /\ TablaRetorna
  /\ llamada.args[1] = Pagina(<<FilaEmitidos, FilaTotal, FilaPerez>>)
  /\ DOMAIN retorno.valor.totales = {emitidos}
  /\ retorno.valor.totales[emitidos].votos = 9

\* two candidate rows named perez, the later one with 500 votes
C29_TestigoCandidato ==
  /\ TablaRetorna
  /\ llamada.args[1] = Pagina(<<FilaPerez, FilaBlanco, FilaPerezB>>)
  /\ DOMAIN retorno.valor.candidatos = {perez}
  /\ retorno.valor.candidatos[perez].votos = 500

---------------------------------------------------------------------------
(* The column names of the matrix                                          *)

\* the candidate names and the aggregate names held by the store of the call
CandidatosDelAlmacen ==
  UNION {DOMAIN llamada.args[1][i].datos.candidatos : i \in 1..Len(llamada.args[1])}

TotalesDelAlmacen ==
  UNION {DOMAIN llamada.args[1][i].datos.totales : i \in 1..Len(llamada.args[1])}

ColumnasDistintas(columnas) ==
  \A i, j \in 1..Len(columnas) : i # j => columnas[i] # columnas[j]

\* C30: the column names of the matrix are pairwise different, for every store and every
\* alias table: comuna, region, and a count column and a share column for each
\* candidate and for each aggregate of the store
C30_ColumnasSinRepetir ==
  DataframeRetorna =>
    /\ ColumnasDistintas(retorno.valor.columnas)
    /\ Len(retorno.valor.columnas)
         = 2 + 2 * (Cardinality(CandidatosDelAlmacen) + Cardinality(TotalesDelAlmacen))

C30_ColumnasSinRepetirSinNombreComun ==
  DataframeRetorna =>
    /\ Len(retorno.valor.columnas)
         = 2 + 2 * (Cardinality(CandidatosDelAlmacen) + Cardinality(TotalesDelAlmacen))
    /\ ColumnasDistintas(retorno.valor.columnas)
         <=> CandidatosDelAlmacen \cap TotalesDelAlmacen = {}

\* the store of PaginaA and PaginaB with the alias table of the runs: twelve columns
C30_Testigo ==
  /\ DataframeRetorna
  /\ llamada \in LlamadasCrearDataframeAlias
  /\ llamada.mapeo_candidatos = MAPEO_CANDIDATOS
  /\ Len(llamada.args[1]) = 2
  /\ Cardinality(CandidatosDelAlmacen) = 2
  /\ Cardinality(TotalesDelAlmacen) = 3
  /\ Len(retorno.valor.columnas) = 12
  /\ ColumnasDistintas(retorno.valor.columnas)
====
